---- MODULE Spec2Model ----
(***************************************************************************)
(* State stores of flask-newui (src/newui/stores.py): Store.dispatch with  *)
(* its lock, middleware chain, reducer, bounded history and subscriber     *)
(* notification, modelled as a state machine over caller threads.          *)
(***************************************************************************)
EXTENDS Integers, Sequences, FiniteSets, TLC

(***************************************************************************)
(* JSON-compatible values.  A Python value is a pair <<tag, content>>:     *)
(*   <<"none", 0>>      None                                               *)
(*   <<"bool", b>>      True / False                                       *)
(*   <<"int", n>>       an integer                                         *)
(*   <<"str", segs>>    a string, held as the result of str.split('.'):    *)
(*                      "cart.total" is <<"cart","total">>, "" is <<"">>   *)
(*   <<"list", s>>      a list, s a sequence of values                     *)
(*   <<"map", f>>       a dict, f a function from its keys to values       *)
(* A raised exception is the pair <<"raise", name>>.                       *)
(***************************************************************************)
Tag(v) == v[1]

Val(v) == v[2]

None == <<"none", 0>>

MkBool(b) == <<"bool", b>>

MkInt(n) == <<"int", n>>

MkStr(segs) == <<"str", segs>>

MkList(s) == <<"list", s>>

MkMap(f) == <<"map", f>>

EmptyMap == [k \in {} |-> None]

EmptyDict == MkMap(EmptyMap)

Raise(name) == <<"raise", name>>

IsRaise(v) == Tag(v) = "raise"

\* bool(v) of Python
Truthy(v) ==
  CASE Tag(v) = "none" -> FALSE
    [] Tag(v) = "bool" -> Val(v)
    [] Tag(v) = "int"  -> Val(v) # 0
    [] Tag(v) = "str"  -> Val(v) # <<"">>
    [] Tag(v) = "list" -> Len(Val(v)) > 0
    [] Tag(v) = "map"  -> DOMAIN Val(v) # {}

IsNumber(v) == Tag(v) \in {"int", "bool"}

\* the integer a Python number stands for (True is 1, False is 0)
NumOf(v) == IF Tag(v) = "bool" THEN (IF Val(v) THEN 1 ELSE 0) ELSE Val(v)

RECURSIVE Norm(_)
\* Python's == on values: a bool equals the integer it stands for
Norm(v) ==
  CASE Tag(v) = "bool" -> MkInt(NumOf(v))
    [] Tag(v) = "list" -> MkList([i \in DOMAIN Val(v) |-> Norm(Val(v)[i])])
    [] Tag(v) = "map"  -> MkMap([k \in DOMAIN Val(v) |-> Norm(Val(v)[k])])
    [] OTHER -> v

PyEq(a, b) == Norm(a) = Norm(b)

\* dict.get(key, default)
DictGet(d, key, default) == IF key \in DOMAIN d THEN d[key] ELSE default

\* d[key] = v on a dict
DictSet(d, key, v) == (key :> v) @@ d

RECURSIVE GetByParts(_, _)
\* the loop of _get_value_by_path / get_state_slice over path.split('.')
GetByParts(value, parts) ==
  IF parts = <<>> THEN value
  ELSE IF Tag(value) = "map" /\ Head(parts) \in DOMAIN Val(value)
       THEN GetByParts(Val(value)[Head(parts)], Tail(parts))
       ELSE None

\* SimpleStore._get_value_by_path(obj, path), path a string value
GetValueByPath(obj, path) == GetByParts(obj, Val(path))

\* a writer that does not descend: the last segment is set on obj itself
SetByPartsFlat(current, parts, value) ==
  IF Tag(current) # "map" THEN Raise("TypeError")
  ELSE MkMap(DictSet(Val(current), parts[Len(parts)], value))

RECURSIVE SetByParts(_, _, _)
\* the loop of _set_value_by_path: `part not in current`, `current[part] = {}`
\* and `current[parts[-1]] = value` all raise TypeError on a current that
\* is not a dict; the result is the mutated obj, or the exception
SetByParts(current, parts, value) ==
  IF Tag(current) # "map" THEN Raise("TypeError")
  ELSE IF Len(parts) = 1 THEN MkMap(DictSet(Val(current), parts[1], value))
  ELSE LET part  == Head(parts)
           child == IF part \in DOMAIN Val(current)
                     THEN Val(current)[part] ELSE EmptyDict
           sub   == SetByParts(child, Tail(parts), value)
       IN IF IsRaise(sub) THEN sub
          ELSE MkMap(DictSet(Val(current), part, sub))

\* SimpleStore._set_value_by_path(obj, path, value)
SetValueByPath(obj, path, value) ==
  IF Tag(path) # "str" THEN Raise("AttributeError")
  ELSE SetByParts(obj, Val(path), value)

\* s with its i-th element removed (list.pop(i) with a 0-based i = index-1)
RemoveAt(s, i) == [j \in 1..(Len(s) - 1) |-> IF j < i THEN s[j] ELSE s[j + 1]]

\* position of the last element equal to v, 0 if none
LastIndexOf(s, v) ==
  IF \E i \in DOMAIN s : PyEq(s[i], v)
  THEN CHOOSE i \in DOMAIN s :
         PyEq(s[i], v) /\ \A j \in DOMAIN s : PyEq(s[j], v) => j <= i
  ELSE 0

\* position of the first element equal to v (list.remove), 0 if none
FirstIndexOf(s, v) ==
  IF \E i \in DOMAIN s : PyEq(s[i], v)
  THEN CHOOSE i \in DOMAIN s :
         PyEq(s[i], v) /\ \A j \in DOMAIN s : PyEq(s[j], v) => i <= j
  ELSE 0

\* current_value + amount
PyAdd(a, b) ==
  IF IsNumber(a) /\ IsNumber(b) THEN MkInt(NumOf(a) + NumOf(b))
  ELSE IF Tag(a) = "list" /\ Tag(b) = "list" THEN MkList(Val(a) \o Val(b))
  ELSE Raise("TypeError")

\* a toggle that writes bool(current_value) back
ToggledSame(current_value) == MkBool(Truthy(current_value))

\* not bool(current_value)
Toggled(current_value) == MkBool(~Truthy(current_value))

\* a merge in which the keys the state already has keep their values
MergeStateKeepOld(state, payload) == MkMap(Val(state) @@ payload)

\* {**state, **payload}
MergeState(state, payload) == MkMap(payload @@ Val(state))

\* the action types SimpleStore.reduce has a branch for
BuiltinTypes ==
  {"SET_STATE", "SET_VALUE", "APPEND_TO_LIST", "REMOVE_FROM_LIST",
   "TOGGLE_BOOLEAN", "INCREMENT", "RESET"}

\* the branches of SimpleStore.reduce; a branch whose `if path:` fails
\* falls through to the final `return state`
ReduceBuiltin(state, action) ==
  LET payload == action.payload
      path    == DictGet(payload, "path", MkStr(<<"">>))
  IN
  CASE action.type = "SET_STATE" ->
         IF Tag(state) = "map" THEN MergeState(state, payload)
         ELSE Raise("TypeError")
    [] action.type = "SET_VALUE" ->
         IF Truthy(path)
         THEN SetValueByPath(state, path, DictGet(payload, "value", None))
         ELSE state
    [] action.type = "APPEND_TO_LIST" ->
         IF Truthy(path)
         THEN IF Tag(path) # "str" THEN Raise("AttributeError")
              ELSE LET list_value == GetValueByPath(state, path)
                       item == DictGet(payload, "item", None)
                   IN IF Tag(list_value) = "list"
                      THEN SetValueByPath(state, path,
                                          MkList(Append(Val(list_value), item)))
                      ELSE SetValueByPath(state, path, MkList(<<item>>))
         ELSE state
    [] action.type = "REMOVE_FROM_LIST" ->
         IF Truthy(path)
         THEN IF Tag(path) # "str" THEN Raise("AttributeError")
              ELSE LET list_value == GetValueByPath(state, path)
                       index == DictGet(payload, "index", None)
                       value == DictGet(payload, "value", None)
                   IN IF Tag(list_value) # "list" THEN state
                      ELSE IF index # None /\ ~IsNumber(index)
                           THEN Raise("TypeError")
                      ELSE IF index # None /\ 0 <= NumOf(index)
                              /\ NumOf(index) < Len(Val(list_value))
                           THEN SetValueByPath(state, path,
                                  MkList(RemoveAt(Val(list_value), NumOf(index) + 1)))
                      ELSE IF value # None /\ FirstIndexOf(Val(list_value), value) # 0
                           THEN SetValueByPath(state, path,
                                  MkList(RemoveAt(Val(list_value),
                                                  FirstIndexOf(Val(list_value), value))))
                      ELSE state
         ELSE state
    [] action.type = "TOGGLE_BOOLEAN" ->
         IF Truthy(path)
         THEN IF Tag(path) # "str" THEN Raise("AttributeError")
              ELSE SetValueByPath(state, path,
                                  Toggled(GetValueByPath(state, path)))
         ELSE state
    [] action.type = "INCREMENT" ->
         IF Truthy(path)
         THEN IF Tag(path) # "str" THEN Raise("AttributeError")
              ELSE LET got == GetValueByPath(state, path)
                       current_value == IF Truthy(got) THEN got ELSE MkInt(0)
                       sum == PyAdd(current_value, DictGet(payload, "amount", MkInt(1)))
                   IN IF IsRaise(sum) THEN sum
                      ELSE SetValueByPath(state, path, sum)
         ELSE state
    [] action.type = "RESET" -> DictGet(payload, "state", EmptyDict)

\* a reducer whose last branch is an `else:` and takes every other type as RESET
reduceElseReset(state, action) ==
  IF action.type \in BuiltinTypes \ {"RESET"}
  THEN ReduceBuiltin(state, action)
  ELSE DictGet(action.payload, "state", EmptyDict)

\* SimpleStore.reduce(state, action): the new state, or the exception raised
reduce(state, action) ==
  IF action.type \in BuiltinTypes
  THEN ReduceBuiltin(state, action)
  ELSE state

(***************************************************************************)
(* Bounds of the model.                                                    *)
(***************************************************************************)
\* number of StateActions created (dispatch calls)
MaxDispatch == 6

\* number of dispatch calls made while subscribers or middleware are in play
MaxPasses == 2

\* number of StateSubscriber objects created
MaxSubs == 2

\* length of the middleware chain
MaxMiddleware == 2

\* largest configured _max_history
MaxHistory == 2

\* number of component instances mounted
MaxInstances == 3

\* length of the item sequences a list is reconciled to
MaxItems == 3

\* number of list nodes rendered
MaxNodes == 4

\* number of stores a StoreManager constructs
MaxStores == 4

\* number of input events and programmatic writes
MaxEvents == 4

\* number of state mutations made while components live
MaxMutations == 2

\* caller threads
Threads == {"t1", "t2"}

MainThread == "t1"

(***************************************************************************)
(* StateAction and the actions, selectors, callbacks and middleware the    *)
(* application supplies.                                                   *)
(***************************************************************************)
\* StateAction(type, payload, timestamp)
StateAction(type, payload, ts) == [type |-> type, payload |-> payload, ts |-> ts]

NoAction == StateAction("", EmptyMap, 0)

TotalPath == MkStr(<<"cart", "total">>)

NamePath == MkStr(<<"user", "name">>)

\* the state the store is constructed with
InitialState == MkMap([cart |-> MkMap([total |-> MkInt(0)])])

\* (type, payload) of the actions callers dispatch
IncrementTotal == <<"INCREMENT", [path |-> TotalPath]>>

SetName == <<"SET_VALUE", [path |-> NamePath, value |-> MkStr(<<"Ada">>)]>>

ZeroTotal == <<"SET_VALUE", [path |-> TotalPath, value |-> MkInt(0)]>>

Unknown == <<"NOT_A_REAL_ACTION", EmptyMap>>

\* selectors: None for a subscriber without one, else the path it selects
NoSelector == None

\* selector(state): state.get('cart', {}).get('total') and the like
Select(selector, st) ==
  IF IsRaise(selector) THEN selector ELSE GetValueByPath(st, selector)

\* a selector that raises for every state (lambda st: 1 / 0)
BadSelector == Raise("ZeroDivisionError")

\* what a subscriber callback does when it is invoked
\*   "log"       records the notification
\*   "unsubSelf" calls its own unsubscribe function
\*   "unsubLast" calls the unsubscribe function of the newest subscriber
\*   "dispatch"  dispatches a follow-up action on the same store
\*   "raise"     raises an exception
\*   "scribble"  changes in place the dict or list it is given
Callbacks == {"log", "unsubSelf", "unsubLast", "dispatch", "raise", "scribble"}

\* the (callback, selector) pairs callers subscribe with
SubscriberKinds ==
  {<<"log", NoSelector>>, <<"log", TotalPath>>, <<"log", NamePath>>,
   <<"unsubSelf", NoSelector>>, <<"unsubSelf", TotalPath>>,
   <<"unsubLast", NoSelector>>, <<"dispatch", NoSelector>>}

FollowUp == "FOLLOW_UP"

\* middleware functions (state, action) -> action | None
\*   "logging"  logging_middleware: returns the action
\*   "silent"   returns None
\*   "amount"   returns the action with payload['amount'] = 2
\*   "cap"      returns a BLOCKED action once cart.total has reached 1
\*   "mutate"   writes state['user'] = None in place, returns None
\*   "validation" is validation_middleware: prints a warning for a
\*              SET_VALUE without a path and returns the action
Middlewares == {"logging", "silent", "amount", "cap", "mutate"}

\* the value a middleware returns; NoAction stands for None
MwReturn(kind, st, action) ==
  CASE kind = "logging" -> action
    [] kind = "silent"  -> NoAction
    [] kind = "amount"  ->
         StateAction(action.type, DictSet(action.payload, "amount", MkInt(2)), action.ts)
    [] kind = "cap"     ->
         IF NumOf(GetValueByPath(st, TotalPath)) >= 1
         THEN StateAction("BLOCKED", action.payload, action.ts)
         ELSE action
    [] kind = "mutate"  -> NoAction
    [] kind = "validation" -> action

\* a middleware that raises (raise ValueError(...)) instead of returning
MwRaises(kind) == kind = "raise"

\* the object self._state refers to after the middleware ran on it
MwState(kind, st) ==
  IF kind = "mutate" /\ Tag(st) = "map"
  THEN MkMap(DictSet(Val(st), "user", None))
  ELSE st

(***************************************************************************)
(* The store and its callers.                                              *)
(***************************************************************************)
VARIABLES
  state,        \* Store._state
  history,      \* Store._history
  max_history,  \* Store._max_history
  subscribers,  \* Store._subscribers: the StateSubscriber objects, by id
  subs,         \* id -> the fields of that StateSubscriber
  middleware,   \* Store._middleware
  lock,         \* Store._lock is held
  stack,        \* thread -> its call stack of dispatch / subscribe frames
  unsubFns,     \* ids whose unsubscribe function subscribe has returned
  result,       \* thread -> what its last top-level call returned or raised
  clock,        \* time.time() as a count of the StateActions created
  calls,        \* history variable: the actions in lock-acquisition order
  committed,    \* history variable: the actions appended since the last clear
  alias         \* thread -> the store object its last returned value is

\* the component registry of the server and the page in the browser
VARIABLES
  instances,      \* the mounted component instances: name, props and id
  states,         \* StateManager._states
  subscriptions,  \* binding engine: the registered (component id, path) pairs
  written,        \* binding engine: the path of the last mutation
  evaluated,      \* binding engine: the subscriptions that mutation notified
  dom,            \* list container: its child nodes and placeholder
  ops             \* list container: what the last reconcile did to the nodes

uiVars == <<instances, states, subscriptions, written, evaluated, dom, ops>>

storeVars == <<state, history, max_history, subscribers, subs, middleware, lock,
               stack, unsubFns, result, clock, calls, committed, alias>>

\* the browser side of the components: lifecycle coordinator and inputs
VARIABLES
  phase,     \* component id -> its lifecycle state
  hooks,     \* component id -> the hooks invoked for it, in order
  held,      \* the component ids whose state the page holds
  rendered,  \* the components re-rendered for the last mutation
  thrown,    \* the (component, hook) invocations that threw in the last step
  reported,  \* the (component, hook) exceptions the coordinator reported in it
  inputs,    \* input node -> the value it displays
  model,     \* the value the state container holds at the bound path
  pending,   \* the change events raised and still to be handled
  cycles,    \* notification cycles since the last input event
  handled,   \* change handlers run since the last input event
  events,    \* input events the user has made
  vetoed,    \* the components whose beforeUpdate vetoed the last mutation
  mutations  \* number of state mutations made

pageVars == <<phase, hooks, held, rendered, thrown, reported, inputs, model,
              pending, cycles, handled, events, vetoed, mutations>>

\* StoreManager
VARIABLES
  stores,         \* StoreManager.stores: the (name, Store object) entries in order
  default_store,  \* StoreManager._default_store: a Store object, 0 for None
  built           \* number of Store objects constructed

managerVars == <<stores, default_store, built>>

\* the Flask session of the StateManager and the NewUIWebSocket manager
VARIABLES
  session,                \* flask.session: component id -> the state kept under
                          \* 'ui_state_<id>'
  last_call,              \* history variable: the last StateManager call
  connections,            \* NewUIWebSocket.connections: session id -> its
                          \* 'subscriptions' and 'rooms'
  component_subscribers,  \* NewUIWebSocket.component_subscribers
  rooms,                  \* NewUIWebSocket.rooms
  sent                    \* history variable: the last state update emitted

serverVars == <<session, last_call, connections, component_subscribers, rooms, sent>>

vars == <<storeVars, uiVars, pageVars, managerVars, serverVars>>

NoResult == <<"pending", 0>>

\* object identities: the dict self._state refers to, the list
\* self._history refers to, and an object the store holds no reference to;
\* `at` is the path of a container inside the dict
StateObject == [obj |-> "_state", at |-> <<>>]

HistoryObject == [obj |-> "_history", at |-> <<>>]

NoObject == [obj |-> "fresh", at |-> <<>>]

\* the object found at path parts inside the object o
SubObject(o, parts) == [o EXCEPT !.at = @ \o parts]

\* a return statement that hands out the store's own object
SameObject(obj) == obj

\* copy.deepcopy(obj): a new object sharing nothing with obj
deepcopy(obj) == NoObject

\* a call frame; fields a call does not use keep these values
NewFrame(fn, action, sub) ==
  [fn |-> fn, pc |-> IF fn = "dispatch" THEN "acquire" ELSE "load",
   action |-> action, sub |-> sub,
   pre |-> None, mwIdx |-> 0, mwTrace |-> <<>>, new_state |-> None,
   pass |-> <<>>, idx |-> 0, notified |-> <<>>, called |-> <<>>,
   removed |-> {}, arg |-> None, errors |-> 0]

Depth(t) == Len(stack[t])

Top(t) == stack[t][Depth(t)]

SetTop(t, f) == [stack EXCEPT ![t] = [@ EXCEPT ![Depth(t)] = f]]

Push(stk, t, f) == [stk EXCEPT ![t] = Append(@, f)]

Pop(t) == [stack EXCEPT ![t] = SubSeq(@, 1, Depth(t) - 1)]

InCall(t, fn, pc) == Depth(t) > 0 /\ Top(t).fn = fn /\ Top(t).pc = pc

\* the value a finished call hands to a top-level caller (a callback that
\* made the call drops it; StateSubscriber.notify catches what it raises)
Returned(t, v) == IF Depth(t) = 1 THEN [result EXCEPT ![t] = v] ELSE result

\* the identity of the object a finished call hands to a top-level caller
Handed(t, obj) == IF Depth(t) = 1 THEN [alias EXCEPT ![t] = obj] ELSE alias

\* the component instances declared in the page
Components == {"c1", "c2"}

\* the input nodes bound two-way to one path of the state container
InputNodes == {"A", "B", "C"}

\* the page as served: no component mounted yet, the inputs showing the
\* empty value the state container holds, no event in progress
InitPage ==
  /\ phase = [c \in Components |-> "Unmounted"]
  /\ hooks = [c \in Components |-> <<>>]
  /\ held = {}
  /\ rendered = {}
  /\ thrown = {}
  /\ reported = {}
  /\ inputs = [i \in InputNodes |-> ""]
  /\ model = ""
  /\ pending = <<>>
  /\ cycles = 0
  /\ handled = 0
  /\ events = 0
  /\ vetoed = {}
  /\ mutations = 0

\* None where a Store is expected; the stores constructed are numbered from 1
NoStore == 0

NoCall == [op |-> "", id |-> "", arg |-> EmptyMap, persist |-> FALSE]

NoUpdate == [component |-> "", to |-> {}]

\* an empty Flask session; NewUIWebSocket.__init__
InitServer ==
  /\ session = EmptyMap
  /\ last_call = NoCall
  /\ connections = EmptyMap
  /\ component_subscribers = EmptyMap
  /\ rooms = EmptyMap
  /\ sent = NoUpdate

\* StoreManager.__init__: self.stores in insertion order, _default_store
InitManager ==
  /\ stores = <<>>
  /\ default_store = NoStore
  /\ built = 0

\* no component mounted, no binding registered, and the list container as
\* for_each emits it: no child node yet
InitUi ==
  /\ InitPage
  /\ InitManager
  /\ InitServer
  /\ instances = <<>>
  /\ states = EmptyMap
  /\ subscriptions = {}
  /\ written = <<>>
  /\ evaluated = {}
  /\ dom = [nodes |-> <<>>, placeholders |-> 0, made |-> 0]
  /\ ops = [moved |-> {}, created |-> {}, destroyed |-> {}]

\* Store.__init__
InitStore ==
  /\ state = InitialState
  /\ history = <<>>
  /\ subscribers = <<>>
  /\ subs = EmptyMap
  /\ middleware = <<>>
  /\ lock = FALSE
  /\ stack = [t \in Threads |-> <<>>]
  /\ unsubFns = {}
  /\ result = [t \in Threads |-> NoResult]
  /\ clock = 0
  /\ calls = <<>>
  /\ committed = <<>>
  /\ alias = [t \in Threads |-> NoObject]
  /\ InitUi

\* a dispatch that does not wait for the lock
CanAcquireUnlocked == TRUE

\* `with self._lock:` can enter
CanAcquire == ~lock

\* a cut that keeps the first n entries, h[:n]
HistoryAppendKeepFirst(h, action, n) ==
  LET a == Append(h, action)
  IN IF Len(a) > n THEN SubSeq(a, 1, n) ELSE a

\* self._history.append(action), cut to the last self._max_history entries:
\* h[-n:] of Python, where -0 is 0
HistoryAppend(h, action, n) ==
  LET a == Append(h, action)
  IN IF Len(a) > n
     THEN (IF n = 0 THEN a ELSE SubSeq(a, Len(a) - n + 1, Len(a)))
     ELSE a

\* a caller invokes store.dispatch(StateAction(type, payload))
CallDispatch(t, tp) ==
  /\ Depth(t) = 0
  /\ clock < MaxDispatch
  /\ clock' = clock + 1
  /\ stack' = Push(stack, t, NewFrame("dispatch", StateAction(tp[1], tp[2], clock + 1), 0))
  /\ result' = [result EXCEPT ![t] = NoResult]
  /\ alias' = [alias EXCEPT ![t] = NoObject]
  /\ UNCHANGED <<state, history, max_history, subscribers, subs, middleware,
                 lock, unsubFns, calls, committed, uiVars,
                 pageVars, managerVars, serverVars>>

\* dispatch: `with self._lock:`
Acquire(t) ==
  /\ InCall(t, "dispatch", "acquire")
  /\ CanAcquire
  /\ lock' = TRUE
  /\ stack' = SetTop(t, [Top(t) EXCEPT !.pc = "middleware", !.mwIdx = 1, !.pre = state])
  /\ calls' = Append(calls, Top(t).action)
  /\ UNCHANGED <<state, history, max_history, subscribers, subs, middleware,
                 unsubFns, result, clock, committed, alias,
                 uiVars, pageVars, managerVars, serverVars>>

\* a chain that calls the middleware and drops what it returns
NextActionDropped(ret, action) == action

\* `middleware(self._state, action) or action`
NextAction(ret, action) == IF ret = NoAction THEN action ELSE ret

\* dispatch: one round of `for middleware in self._middleware`; an exception
\* leaves the with block, which releases the lock
Middleware(t) ==
  /\ InCall(t, "dispatch", "middleware")
  /\ Top(t).mwIdx <= Len(middleware)
  /\ LET f    == Top(t)
         kind == middleware[f.mwIdx]
         ret  == MwReturn(kind, state, f.action)
     IN /\ state' = MwState(kind, state)
        /\ IF MwRaises(kind)
           THEN /\ lock' = FALSE
                /\ stack' = Pop(t)
                /\ result' = Returned(t, Raise("ValueError"))
                /\ alias' = Handed(t, NoObject)
           ELSE /\ stack' = SetTop(t, [f EXCEPT
                       !.action  = NextAction(ret, f.action),
                       !.mwIdx   = f.mwIdx + 1,
                       !.mwTrace = Append(f.mwTrace, [mw |-> f.mwIdx, got |-> f.action])])
                /\ UNCHANGED <<lock, result, alias>>
  /\ UNCHANGED <<history, max_history, subscribers, subs, middleware,
                 unsubFns, clock, calls, committed,
                 uiVars, pageVars, managerVars, serverVars>>

\* dispatch: new_state = self.reduce(copy.deepcopy(self._state), action);
\* an exception leaves the with block, which releases the lock
Reduce(t) ==
  /\ InCall(t, "dispatch", "middleware")
  /\ Top(t).mwIdx > Len(middleware)
  /\ LET f == Top(t)
         r == reduce(state, f.action)
     IN IF IsRaise(r)
        THEN /\ lock' = FALSE
             /\ stack' = Pop(t)
             /\ result' = Returned(t, r)
             /\ alias' = Handed(t, NoObject)
        ELSE /\ stack' = SetTop(t, [f EXCEPT !.pc = "commit", !.new_state = r])
             /\ UNCHANGED <<lock, result, alias>>
  /\ UNCHANGED <<state, history, max_history, subscribers, subs, middleware,
                 unsubFns, clock, calls, committed, uiVars,
                 pageVars, managerVars, serverVars>>

\* dispatch: self._state = new_state and the history update
Commit(t) ==
  /\ InCall(t, "dispatch", "commit")
  /\ state' = Top(t).new_state
  /\ history' = HistoryAppend(history, Top(t).action, max_history)
  /\ committed' = Append(committed, Top(t).action)
  /\ stack' = SetTop(t, [Top(t) EXCEPT !.pc = "copy"])
  /\ alias' = [u \in Threads |-> IF alias[u].obj = "_state" THEN NoObject
                                  ELSE alias[u]]
  /\ UNCHANGED <<max_history, subscribers, subs, middleware, lock, unsubFns,
                 result, clock, calls, uiVars, pageVars, managerVars, serverVars>>

\* _notify_subscribers: the copy self._subscribers[:]
NotifyBegin(t) ==
  /\ InCall(t, "dispatch", "copy")
  /\ stack' = SetTop(t, [Top(t) EXCEPT !.pc = "notify", !.pass = subscribers, !.idx = 1])
  /\ UNCHANGED <<state, history, max_history, subscribers, subs, middleware,
                 lock, unsubFns, result, clock, calls, committed,
                 alias, uiVars, pageVars, managerVars, serverVars>>

\* what a caller's in-place change makes of the dict or list it holds:
\* d['touched'] = True, l.append(9), h.append(an action)
Touched(v) ==
  CASE Tag(v) = "map"     -> MkMap(DictSet(Val(v), "touched", MkBool(TRUE)))
    [] Tag(v) = "list"    -> MkList(Append(Val(v), MkInt(9)))
    [] Tag(v) = "actions" -> <<"actions", Append(Val(v), NoAction)>>

\* the change above was made to v (a caller makes it once per object)
IsTouched(v) ==
  CASE Tag(v) = "map"     -> "touched" \in DOMAIN Val(v)
    [] Tag(v) = "list"    -> Len(Val(v)) > 0 /\ Val(v)[Len(Val(v))] = MkInt(9)
    [] Tag(v) = "actions" -> Len(Val(v)) > 0 /\ Val(v)[Len(Val(v))] = NoAction

InitAction == StateAction("@@INIT", EmptyMap, 0)

\* StateSubscriber.notify: is self.callback invoked for this state
Fires(sub, st) ==
  IF sub.selector = NoSelector THEN TRUE
  ELSE /\ ~IsRaise(Select(sub.selector, st))
       /\ ~PyEq(Select(sub.selector, st), sub.last_selected_state)

\* StateSubscriber.notify: the selector or the callback raises
Raises(sub, st) ==
  \/ sub.selector # NoSelector /\ IsRaise(Select(sub.selector, st))
  \/ Fires(sub, st) /\ sub.callback = "raise"

\* a notify without the try: the exception ends the notification pass and
\* the dispatch
Escaped(f, raised) ==
  IF raised THEN [f EXCEPT !.idx = Len(f.pass) + 1,
                           !.new_state = Raise("RuntimeError")]
  ELSE f

\* StateSubscriber.notify: `except Exception as e: print(...)`; the frame
\* of the caller once notify has returned
Caught(f, raised) == IF raised THEN [f EXCEPT !.errors = @ + 1] ELSE f

\* the object self._state refers to after the callback of sub was invoked
\* with it (or with the slice its selector takes of it)
Scribbled(sub, st) ==
  IF sub.callback # "scribble" \/ ~Fires(sub, st) THEN st
  ELSE IF sub.selector = NoSelector
       THEN IF Tag(st) \in {"map", "list"} THEN Touched(st) ELSE st
  ELSE LET v == Select(sub.selector, st)
       IN IF Tag(v) \in {"map", "list"}
          THEN SetByParts(st, Val(sub.selector), Touched(v))
          ELSE st

\* a notify that never stores the selected value
LastSelectedStale(sub, st) == sub.last_selected_state

\* StateSubscriber.notify: last_selected_state after the call
LastSelected(sub, st) ==
  IF sub.selector # NoSelector /\ Fires(sub, st)
  THEN Select(sub.selector, st)
  ELSE sub.last_selected_state

\* the subscriber whose unsubscribe function callback kind `kind` of
\* subscriber s calls, 0 if it calls none
UnsubTarget(kind, s) ==
  CASE kind = "unsubSelf" -> s
    [] kind = "unsubLast" -> Cardinality(DOMAIN subs)
    [] OTHER -> 0

\* unsubscribe(): `if subscriber in self._subscribers: remove(subscriber)`
\* an unsubscribe that leaves the list as it is
Kept(list, s) == list

\* list.remove(subscriber) guarded by `subscriber in list`; a subscriber is
\* in the list at most once
Remove(list, s) == SelectSeq(list, LAMBDA x : x # s)

\* history: the unsubscribe function of subscriber s has been called
Unsubscribed(table, s) == [table EXCEPT ![s].unsubscribed = TRUE]

\* subscriber.notify(st, action) called by thread t, whose top frame
\* becomes f once the call has returned
NotifyOne(t, f, s, st, action) ==
  LET sub    == subs[s]
      reacts == Fires(sub, st) /\ action.type # "@@INIT"
      target == UnsubTarget(sub.callback, s)
  IN /\ subs' = LET seen == [subs EXCEPT ![s].last_selected_state =
                                                 LastSelected(sub, st)]
                  IN IF reacts /\ target \in unsubFns
                     THEN Unsubscribed(seen, target) ELSE seen
     /\ subscribers' = IF reacts /\ target \in unsubFns
                       THEN Remove(subscribers, target) ELSE subscribers
     /\ state' = Scribbled(sub, st)
     /\ IF reacts /\ sub.callback = "dispatch" /\ action.type # FollowUp
        THEN /\ clock' = clock + 1
             /\ stack' = Push(SetTop(t, f), t,
                              NewFrame("dispatch",
                                       StateAction(FollowUp, EmptyMap, clock + 1), 0))
        ELSE /\ clock' = clock
             /\ stack' = SetTop(t, f)

\* a loop over self._subscribers itself
PassListLive(f) == subscribers

\* the list _notify_subscribers loops over: the copy self._subscribers[:]
PassList(f) == f.pass

\* the notification loop of frame f has no subscriber left
PassComplete(f) ==
  f.fn = "dispatch" /\ f.pc = "notify" /\ f.idx > Len(PassList(f))

\* _notify_subscribers: one round of the loop
Notify(t) ==
  /\ InCall(t, "dispatch", "notify")
  /\ ~PassComplete(Top(t))
  /\ LET f == Top(t)
         s == PassList(f)[f.idx]
         fires  == Fires(subs[s], state)
         target == UnsubTarget(subs[s].callback, s)
     IN NotifyOne(t, Caught([f EXCEPT !.idx = f.idx + 1,
                                      !.notified = Append(f.notified, s),
                                      !.called = IF fires THEN Append(f.called, s)
                                                 ELSE f.called,
                                      !.removed = IF fires /\ target \in unsubFns
                                                  THEN f.removed \cup {target}
                                                  ELSE f.removed,
                                      !.new_state = Scribbled(subs[s], state)],
                             Raises(subs[s], state)),
                  s, state, f.action)
  /\ UNCHANGED <<history, max_history, middleware, lock, unsubFns,
                 result, calls, committed, alias, uiVars,
                 pageVars, managerVars, serverVars>>

\* a return of the state the call found
ReturnValueBefore(f) == f.pre

\* the value of `return copy.deepcopy(new_state)`
ReturnValue(f) == f.new_state

\* dispatch: return copy.deepcopy(new_state), leaving the with block
Return(t) ==
  /\ InCall(t, "dispatch", "notify")
  /\ PassComplete(Top(t))
  /\ lock' = FALSE
  /\ stack' = Pop(t)
  /\ result' = Returned(t, ReturnValue(Top(t)))
  /\ alias' = Handed(t, deepcopy(StateObject))
  /\ UNCHANGED <<state, history, max_history, subscribers, subs, middleware,
                 unsubFns, clock, calls, committed, uiVars,
                 pageVars, managerVars, serverVars>>

\* the loop of get_state_slice over path.split('.') on the tree st
SliceOf(st, path) == GetByParts(st, Val(path))

\* Store.get_state_slice(path) on the current state, path a string value
get_state_slice(path) == SliceOf(state, path)

\* Store.get_state(): `with self._lock: return copy.deepcopy(self._state)`
GetState(t) ==
  /\ Depth(t) = 0
  /\ CanAcquire
  /\ result' = [result EXCEPT ![t] = state]
  /\ alias' = [alias EXCEPT ![t] = deepcopy(StateObject)]
  /\ UNCHANGED <<state, history, max_history, subscribers, subs, middleware,
                 lock, stack, unsubFns, clock, calls, committed,
                 uiVars, pageVars, managerVars, serverVars>>

\* Store.get_state_slice(path): no lock; None where the walk fails, else
\* copy.deepcopy(value)
GetStateSlice(t, path) ==
  /\ Depth(t) = 0
  /\ result' = [result EXCEPT ![t] = get_state_slice(path)]
  /\ alias' = [alias EXCEPT ![t] =
                 IF get_state_slice(path) = None THEN NoObject
                 ELSE deepcopy(SubObject(StateObject, Val(path)))]
  /\ UNCHANGED <<state, history, max_history, subscribers, subs, middleware,
                 lock, stack, unsubFns, clock, calls, committed,
                 uiVars, pageVars, managerVars, serverVars>>

\* Store.get_history(): `with self._lock: return copy.deepcopy(self._history)`
GetHistory(t) ==
  /\ Depth(t) = 0
  /\ CanAcquire
  /\ result' = [result EXCEPT ![t] = <<"actions", history>>]
  /\ alias' = [alias EXCEPT ![t] = deepcopy(HistoryObject)]
  /\ UNCHANGED <<state, history, max_history, subscribers, subs, middleware,
                 lock, stack, unsubFns, clock, calls, committed,
                 uiVars, pageVars, managerVars, serverVars>>

\* the caller changes in place the object its last call returned; the
\* change shows in the store exactly when that object is one of the store's
Mutate(t) ==
  /\ Depth(t) = 0
  /\ Tag(result[t]) \in {"map", "list", "actions"}
  /\ ~IsTouched(result[t])
  /\ result' = [result EXCEPT ![t] = Touched(@)]
  /\ state' = IF alias[t].obj # "_state" THEN state
              ELSE IF alias[t].at = <<>> THEN Touched(result[t])
              ELSE SetByParts(state, alias[t].at, Touched(result[t]))
  /\ history' = IF alias[t].obj = "_history" THEN Val(Touched(result[t]))
                ELSE history
  /\ UNCHANGED <<max_history, subscribers, subs, middleware, lock, stack,
                 unsubFns, clock, calls, committed, alias,
                 uiVars, pageVars, managerVars, serverVars>>

\* subscribe: the StateSubscriber is created and appended to _subscribers
CallSubscribe(t, callback, selector) ==
  /\ Depth(t) = 0
  /\ Cardinality(DOMAIN subs) < MaxSubs
  /\ LET s == Cardinality(DOMAIN subs) + 1
     IN /\ subs' = (s :> [callback |-> callback, selector |-> selector,
                          last_selected_state |-> None, unsubscribed |-> FALSE]) @@ subs
        /\ subscribers' = Append(subscribers, s)
        /\ stack' = Push(stack, t, NewFrame("subscribe", NoAction, s))
  /\ result' = [result EXCEPT ![t] = NoResult]
  /\ UNCHANGED <<state, history, max_history, middleware, lock, unsubFns,
                 clock, calls, committed, alias, uiVars,
                 pageVars, managerVars, serverVars>>

\* subscribe: the argument self._state of the initial notify is evaluated
SubLoad(t) ==
  /\ InCall(t, "subscribe", "load")
  /\ stack' = SetTop(t, [Top(t) EXCEPT !.pc = "init", !.arg = state])
  /\ UNCHANGED <<state, history, max_history, subscribers, subs, middleware,
                 lock, unsubFns, result, clock, calls, committed,
                 alias, uiVars, pageVars, managerVars, serverVars>>

\* subscribe: subscriber.notify(state, StateAction("@@INIT")), then the
\* unsubscribe function is returned
SubInit(t) ==
  /\ InCall(t, "subscribe", "init")
  /\ LET f == Top(t)
     IN /\ subs' = [subs EXCEPT ![f.sub].last_selected_state =
                                   LastSelected(subs[f.sub], f.arg)]
        /\ unsubFns' = unsubFns \cup {f.sub}
        /\ result' = Returned(t, MkInt(f.sub))
        /\ state' = IF f.arg = state THEN Scribbled(subs[f.sub], state) ELSE state
  /\ stack' = Pop(t)
  /\ UNCHANGED <<history, max_history, subscribers, middleware, lock,
                 clock, calls, committed, alias, uiVars,
                 pageVars, managerVars, serverVars>>

\* a caller invokes the unsubscribe function of subscriber s
Unsubscribe(t, s) ==
  /\ Depth(t) = 0
  /\ s \in unsubFns
  /\ subscribers' = Remove(subscribers, s)
  /\ subs' = Unsubscribed(subs, s)
  /\ UNCHANGED <<state, history, max_history, middleware, lock, stack,
                 unsubFns, result, clock, calls, committed,
                 alias, uiVars, pageVars, managerVars, serverVars>>

\* add_middleware(middleware)
AddMiddleware(t, kind) ==
  /\ Depth(t) = 0
  /\ Len(middleware) < MaxMiddleware
  /\ middleware' = Append(middleware, kind)
  /\ UNCHANGED <<state, history, max_history, subscribers, subs, lock, stack,
                 unsubFns, result, clock, calls, committed,
                 alias, uiVars, pageVars, managerVars, serverVars>>

\* clear_history()
ClearHistory(t) ==
  /\ Depth(t) = 0
  /\ CanAcquire
  /\ history' = <<>>
  /\ committed' = <<>>
  /\ UNCHANGED <<state, max_history, subscribers, subs, middleware, lock,
                 stack, unsubFns, result, clock, calls,
                 alias, uiVars, pageVars, managerVars, serverVars>>

(***************************************************************************)
(* Specifications.                                                         *)
(***************************************************************************)
DispatchPool == {IncrementTotal, SetName, ZeroTotal, Unknown}

\* one caller; subscribers with and without selectors, callbacks that
\* unsubscribe or dispatch from inside the notification
Init ==
  /\ InitStore
  /\ max_history = MaxHistory

Next ==
  \/ \E tp \in {IncrementTotal, SetName, ZeroTotal} :
       clock < MaxPasses /\ CallDispatch(MainThread, tp)
  \/ \E kind \in SubscriberKinds : CallSubscribe(MainThread, kind[1], kind[2])
  \/ \E s \in 1..MaxSubs : Unsubscribe(MainThread, s)
  \/ Acquire(MainThread)
  \/ Reduce(MainThread)
  \/ Commit(MainThread)
  \/ NotifyBegin(MainThread)
  \/ Notify(MainThread)
  \/ Return(MainThread)
  \/ SubLoad(MainThread)
  \/ SubInit(MainThread)

Spec == Init /\ [][Next]_vars

\* the steps of a call in progress are taken eventually; new calls need not be made
Progress(t) ==
  Acquire(t) \/ Reduce(t) \/ Commit(t) \/ NotifyBegin(t) \/ Notify(t)
    \/ Return(t) \/ SubLoad(t) \/ SubInit(t)

FairSpec == Spec /\ WF_vars(Progress(MainThread))

\* one caller, any configured _max_history, no subscriber
InitHistory ==
  /\ InitStore
  /\ max_history \in 0..MaxHistory

NextHistory ==
  \/ \E tp \in {IncrementTotal, SetName, Unknown} : CallDispatch(MainThread, tp)
  \/ ClearHistory(MainThread)
  \/ Acquire(MainThread)
  \/ Reduce(MainThread)
  \/ Commit(MainThread)
  \/ NotifyBegin(MainThread)
  \/ Return(MainThread)

SpecHistory == InitHistory /\ [][NextHistory]_vars

\* one caller, a middleware chain built by add_middleware
NextMiddleware ==
  \/ \E kind \in Middlewares : AddMiddleware(MainThread, kind)
  \/ \E tp \in DispatchPool : clock < MaxPasses /\ CallDispatch(MainThread, tp)
  \/ Acquire(MainThread)
  \/ Middleware(MainThread)
  \/ Reduce(MainThread)
  \/ Commit(MainThread)
  \/ NotifyBegin(MainThread)
  \/ Return(MainThread)

SpecMiddleware == Init /\ [][NextMiddleware]_vars

\* concurrent callers of dispatch on one store, behind a chain of
\* middleware that read the state
InitConcStore ==
  /\ state = InitialState
  /\ history = <<>>
  /\ subscribers = <<>>
  /\ subs = EmptyMap
  /\ middleware \in {<<>>, <<"cap">>, <<"amount", "cap">>}
  /\ max_history = MaxHistory
  /\ lock = FALSE
  /\ stack = [t \in Threads |-> <<>>]
  /\ unsubFns = {}
  /\ result = [t \in Threads |-> NoResult]
  /\ clock = 0
  /\ calls = <<>>
  /\ committed = <<>>
  /\ alias = [t \in Threads |-> NoObject]
  /\ InitUi

NextConc ==
  \E t \in Threads :
    \/ \E tp \in DispatchPool : clock < MaxPasses + 1 /\ CallDispatch(t, tp)
    \/ Acquire(t)
    \/ Middleware(t)
    \/ Reduce(t)
    \/ Commit(t)
    \/ NotifyBegin(t)
    \/ Return(t)

SpecConc == InitConcStore /\ [][NextConc]_vars

\* the trees a store is constructed with when paths are exercised: the
\* location a.b absent, a boolean, a number, a string, a list, a map or
\* null, and the parent a a number, a string, a list or null
PathStates ==
  {EmptyDict,
   MkMap([a |-> MkMap([b |-> MkBool(TRUE)])]),
   MkMap([a |-> MkMap([b |-> MkInt(2)])]),
   MkMap([a |-> MkMap([b |-> MkStr(<<"s">>)])]),
   MkMap([a |-> MkMap([b |-> MkList(<<MkInt(1)>>)])]),
   MkMap([a |-> MkMap([b |-> MkMap([c |-> MkInt(1)])])]),
   MkMap([a |-> MkMap([b |-> None])]),
   MkMap([a |-> MkInt(5)]),
   MkMap([a |-> MkStr(<<"s">>)]),
   MkMap([a |-> MkList(<<MkInt(1)>>)]),
   MkMap([a |-> None])}

\* the paths callers address: "a.b", "a.b.c", "x.y", "" and "a."
Paths ==
  {MkStr(<<"a", "b">>), MkStr(<<"a", "b", "c">>), MkStr(<<"x", "y">>),
   MkStr(<<"">>), MkStr(<<"a", "">>)}

SetValuePool ==
  {<<"SET_VALUE", [path |-> p, value |-> MkInt(1)]>> : p \in Paths}
    \cup {<<"SET_VALUE", [path |-> MkStr(<<"a", "b">>), value |-> MkBool(FALSE)]>>}

TogglePool == {<<"TOGGLE_BOOLEAN", [path |-> p]>> : p \in Paths}

IncrementPool ==
  {<<"INCREMENT", [path |-> p]>> : p \in Paths}
    \cup {<<"INCREMENT", [path |-> MkStr(<<"a", "b">>), amount |-> MkInt(2)]>>}

\* Store.__init__ with one of the trees above as initial_state
InitPathStore ==
  /\ state \in PathStates
  /\ history = <<>>
  /\ subscribers = <<>>
  /\ subs = EmptyMap
  /\ middleware = <<>>
  /\ max_history = MaxHistory
  /\ lock = FALSE
  /\ stack = [t \in Threads |-> <<>>]
  /\ unsubFns = {}
  /\ result = [t \in Threads |-> NoResult]
  /\ clock = 0
  /\ calls = <<>>
  /\ committed = <<>>
  /\ alias = [t \in Threads |-> NoObject]
  /\ InitUi

\* one caller dispatching SET_VALUE
NextSetValue ==
  \/ \E tp \in SetValuePool : clock < MaxPasses /\ CallDispatch(MainThread, tp)
  \/ Acquire(MainThread)
  \/ Reduce(MainThread)
  \/ Commit(MainThread)
  \/ NotifyBegin(MainThread)
  \/ Return(MainThread)

SpecSetValue == InitPathStore /\ [][NextSetValue]_vars

\* one caller dispatching TOGGLE_BOOLEAN
NextToggle ==
  \/ \E tp \in TogglePool : clock < MaxPasses /\ CallDispatch(MainThread, tp)
  \/ Acquire(MainThread)
  \/ Reduce(MainThread)
  \/ Commit(MainThread)
  \/ NotifyBegin(MainThread)
  \/ Return(MainThread)

SpecToggle == InitPathStore /\ [][NextToggle]_vars

\* one caller dispatching INCREMENT
NextIncrement ==
  \/ \E tp \in IncrementPool : clock < MaxPasses /\ CallDispatch(MainThread, tp)
  \/ Acquire(MainThread)
  \/ Reduce(MainThread)
  \/ Commit(MainThread)
  \/ NotifyBegin(MainThread)
  \/ Return(MainThread)

SpecIncrement == InitPathStore /\ [][NextIncrement]_vars

\* a store of one of the trees above behind validation_middleware
InitValidated ==
  /\ state \in PathStates
  /\ history = <<>>
  /\ subscribers = <<>>
  /\ subs = EmptyMap
  /\ middleware = <<"validation">>
  /\ max_history = MaxHistory
  /\ lock = FALSE
  /\ stack = [t \in Threads |-> <<>>]
  /\ unsubFns = {}
  /\ result = [t \in Threads |-> NoResult]
  /\ clock = 0
  /\ calls = <<>>
  /\ committed = <<>>
  /\ alias = [t \in Threads |-> NoObject]
  /\ InitUi

\* one caller dispatching SET_VALUE and TOGGLE_BOOLEAN through the
\* validating chain
NextValidated ==
  \/ \E tp \in SetValuePool \cup TogglePool :
       clock < MaxPasses /\ CallDispatch(MainThread, tp)
  \/ Acquire(MainThread)
  \/ Middleware(MainThread)
  \/ Reduce(MainThread)
  \/ Commit(MainThread)
  \/ NotifyBegin(MainThread)
  \/ Return(MainThread)

SpecValidated == InitValidated /\ [][NextValidated]_vars

\* the paths a caller reads slices at: "cart", "cart.total", "user.name"
SlicePaths == {MkStr(<<"cart">>), TotalPath, NamePath}

\* a caller that dispatches and a second thread, each reading the state,
\* a slice or the history and changing what it was handed
NextRead ==
  \/ \E tp \in {IncrementTotal, SetName} :
       clock < MaxPasses /\ CallDispatch(MainThread, tp)
  \/ Acquire(MainThread)
  \/ Reduce(MainThread)
  \/ Commit(MainThread)
  \/ NotifyBegin(MainThread)
  \/ Return(MainThread)
  \/ \E t \in Threads : GetState(t)
  \/ \E t \in Threads, path \in SlicePaths : GetStateSlice(t, path)
  \/ \E t \in Threads : GetHistory(t)
  \/ \E t \in Threads : Mutate(t)

SpecRead == Init /\ [][NextRead]_vars

(***************************************************************************)
(* StateManager: component ids and the per-component state container.      *)
(***************************************************************************)
\* StateManager.generate_component_id: the first 8 hex digits of the md5 of
\* "name:json.dumps(props, sort_keys=True)".  The digest is a function of
\* that string alone; it is kept here as the pair it is computed from, the
\* case in which the truncated digest never collides
generate_component_id(component_name, props) == <<component_name, props>>

\* the component names and props pages mount
ComponentNames == {"Card", "Counter"}

PropsPool == {EmptyMap, [count |-> MkInt(0)], [count |-> MkInt(1)]}

\* a component instance is mounted: its id is generated from its name and
\* props and set_state(id, props) stores its first state
Mount(component_name, props) ==
  /\ Len(instances) < MaxInstances
  /\ LET id == generate_component_id(component_name, props)
     IN /\ instances' = Append(instances,
                               [name |-> component_name, props |-> props, id |-> id])
        /\ states' = DictSet(states, id, props)
  /\ UNCHANGED <<storeVars, subscriptions, written, evaluated, dom, ops,
                 pageVars, managerVars, serverVars>>

\* StateManager.update_state(component_id, updates) for the i-th instance:
\* current = get_state(id); current.update(updates); set_state(id, current)
UpdateState(i, updates) ==
  /\ i \in DOMAIN instances
  /\ LET id      == instances[i].id
         current == DictGet(states, id, EmptyMap)
     IN states' = DictSet(states, id, updates @@ current)
  /\ UNCHANGED <<storeVars, instances, subscriptions, written, evaluated, dom, ops,
                 pageVars, managerVars, serverVars>>

NextComponents ==
  \/ \E component_name \in ComponentNames, props \in PropsPool :
       Mount(component_name, props)
  \/ \E i \in 1..MaxInstances : UpdateState(i, [count |-> MkInt(5)])

SpecComponents == Init /\ [][NextComponents]_vars

(***************************************************************************)
(* Binding engine (browser side): subscriptions by path and the            *)
(* notification of a mutation.  Paths are strings of characters here.      *)
(***************************************************************************)
\* p is a prefix of q, as sequences
IsPrefix(p, q) == Len(p) <= Len(q) /\ SubSeq(q, 1, Len(p)) = p

RECURSIVE SplitDots(_)
\* the dot-separated segments of the string s
SplitDots(s) ==
  IF \E i \in DOMAIN s : s[i] = "."
  THEN LET i == CHOOSE i \in DOMAIN s :
                  s[i] = "." /\ \A j \in 1..(i - 1) : s[j] # "."
       IN <<SubSeq(s, 1, i - 1)>> \o SplitDots(SubSeq(s, i + 1, Len(s)))
  ELSE <<s>>

\* containment decided on the strings themselves (startsWith)
AffectsByStringPrefix(p, q) == IsPrefix(p, q) \/ IsPrefix(q, p)

\* a mutation of path p concerns a subscription on path q: one path is the
\* other or an ancestor of it, by whole dot-separated segments
Affects(p, q) ==
  \/ IsPrefix(SplitDots(p), SplitDots(q))
  \/ IsPrefix(SplitDots(q), SplitDots(p))

User == <<"u", "s", "e", "r">>

Users == <<"u", "s", "e", "r", "s">>

UserName == <<"u", "s", "e", "r", ".", "n", "a", "m", "e">>

UserNameFirst == <<"u", "s", "e", "r", ".", "n", "a", "m", "e", ".", "f", "i", "r", "s", "t">>

\* the paths bindings are declared on and mutations are made to
BindingPaths == {User, Users, UserName, UserNameFirst}

\* ids of the components whose declarations the mount-scan finds
BindingComponents == {"c1", "c2"}

\* mount-scan: a binding declaration registers a subscription keyed by
\* (component id, path)
Register(component, path) ==
  /\ subscriptions' = subscriptions \cup {<<component, path>>}
  /\ UNCHANGED <<storeVars, instances, states, written, evaluated, dom, ops,
                 pageVars, managerVars, serverVars>>

\* a mutation of path p: every subscription it concerns is notified and
\* its binding re-evaluated
WritePath(p) ==
  /\ written' = p
  /\ evaluated' = {sub \in subscriptions : Affects(p, sub[2])}
  /\ UNCHANGED <<storeVars, instances, states, subscriptions, dom, ops,
                 pageVars, managerVars, serverVars>>

NextBindings ==
  \/ \E component \in BindingComponents, path \in BindingPaths :
       Register(component, path)
  \/ \E p \in BindingPaths : WritePath(p)

SpecBindings == Init /\ [][NextBindings]_vars

(***************************************************************************)
(* List reconciler (browser side) for the container that                   *)
(* ListRenderer.for_each emits: keyed nodes, reconciled to a new sequence   *)
(* of items.  An item is identified by its key.                            *)
(***************************************************************************)
ItemKeys == {"a", "b", "c"}

\* the sequences of items with distinct keys
ItemLists ==
  {items \in UNION {[1..n -> ItemKeys] : n \in 0..MaxItems} :
     \A i, j \in DOMAIN items : items[i] = items[j] => i = j}

KeysOf(nodes) == [i \in DOMAIN nodes |-> nodes[i].key]

IndexOf(seq, k) == CHOOSE i \in DOMAIN seq : seq[i] = k

Range(seq) == {seq[i] : i \in DOMAIN seq}

\* the keys of S come in the same relative order in old and in new
OrderPreserved(old, new, S) ==
  \A x, y \in S :
    IndexOf(old, x) < IndexOf(old, y) <=> IndexOf(new, x) < IndexOf(new, y)

\* a reconciler that leaves a node alone only where its index is the same
StaysAtIndex(old, new, stay) ==
  stay = {k \in Range(old) \cap Range(new) : IndexOf(old, k) = IndexOf(new, k)}

\* the persisting nodes that are not moved: as many as can keep their
\* relative order (the moves are as few as possible)
Stays(old, new, stay) ==
  /\ stay \subseteq Range(old) \cap Range(new)
  /\ OrderPreserved(old, new, stay)
  /\ \A other \in SUBSET (Range(old) \cap Range(new)) :
       OrderPreserved(old, new, other) => Cardinality(other) <= Cardinality(stay)

\* a reconciler that renders the placeholder and never takes it away
PlaceholdersKept(items, had) == IF items = <<>> THEN 1 ELSE had

\* the "empty" placeholder nodes of the container after a reconcile to
\* items, of which it had `had`: a single one for an empty sequence, none
\* as soon as there is an item
Placeholders(items, had) == IF items = <<>> THEN 1 ELSE 0

\* reconcile(container, items, keyFn, renderFn): nodes of absent keys are
\* removed, new keys are rendered fresh, persisting nodes are kept as they
\* are and moved where needed; the placeholder shows for an empty list
Reconcile(items) ==
  LET old       == KeysOf(dom.nodes)
      destroyed == Range(old) \ Range(items)
      created   == Range(items) \ Range(old)
      fresh(i)  == Cardinality({j \in 1..i : items[j] \in created})
  IN /\ dom.made + Cardinality(created) <= MaxNodes
     /\ dom' = [nodes |-> [i \in DOMAIN items |->
                             IF items[i] \in created
                             THEN [key |-> items[i], id |-> dom.made + fresh(i),
                                   renders |-> 1]
                             ELSE dom.nodes[IndexOf(old, items[i])]],
                placeholders |-> Placeholders(items, dom.placeholders),
                made |-> dom.made + Cardinality(created)]
     /\ \E stay \in SUBSET (Range(old) \cap Range(items)) :
          /\ Stays(old, items, stay)
          /\ ops' = [moved     |-> (Range(old) \cap Range(items)) \ stay,
                     created   |-> created,
                     destroyed |-> destroyed]
     /\ UNCHANGED <<storeVars, instances, states, subscriptions, written, evaluated,
                    pageVars, managerVars, serverVars>>

NextList == \E items \in ItemLists : Reconcile(items)

SpecList == Init /\ [][NextList]_vars

(***************************************************************************)
(* Properties.                                                             *)
(***************************************************************************)
\* every frame of every call stack
Frames == UNION {{stack[t][d] : d \in 1..Depth(t)} : t \in Threads}

\* no dispatch is between taking the lock and returning
Quiescent == \A t \in Threads : Depth(t) = 0 \/ InCall(t, "dispatch", "acquire")

\* the last n entries of s
LastN(s, n) == SubSeq(s, Len(s) - n + 1, Len(s))

Min(a, b) == IF a <= b THEN a ELSE b

RECURSIVE ChainAction(_, _, _)
\* the action a middleware chain mws hands on for action, run on state st
ChainAction(st, action, mws) ==
  IF mws = <<>> THEN action
  ELSE LET ret == MwReturn(Head(mws), st, action)
       IN ChainAction(MwState(Head(mws), st),
                      IF ret = NoAction THEN action ELSE ret, Tail(mws))

RECURSIVE ChainState(_, _)
\* the state object after the chain mws ran on it
ChainState(st, mws) ==
  IF mws = <<>> THEN st ELSE ChainState(MwState(Head(mws), st), Tail(mws))

RECURSIVE Serial(_, _, _)
\* state and history after the dispatches of acts, run one at a time
Serial(st, hist, acts) ==
  IF acts = <<>> THEN [state |-> st, history |-> hist]
  ELSE LET final == ChainAction(st, Head(acts), middleware)
           r     == reduce(ChainState(st, middleware), final)
       IN IF IsRaise(r)
          THEN Serial(ChainState(st, middleware), hist, Tail(acts))
          ELSE Serial(r, HistoryAppend(hist, final, max_history), Tail(acts))

\* thread t is inside the notification loop of a dispatch: a subscriber is
\* still to be notified, or a callback of the loop is running a call
Notifying(t) ==
  \E d \in 1..Depth(t) :
    /\ stack[t][d].fn = "dispatch"
    /\ stack[t][d].pc = "notify"
    /\ (d < Depth(t) \/ ~PassComplete(stack[t][d]))

\* C1: while a subscriber callback runs as part of dispatch, the store's
\* lock is not held (the claim as stated)
C1_NotifyOutsideLock == \A t \in Threads : Notifying(t) => ~lock

\* C2: every call in progress eventually returns and the store is idle
\* again, also when a subscriber callback dispatches on the same store
\* (the claim as stated)
C2_DispatchReturns ==
  \A t \in Threads : (Depth(t) > 0) ~> (Depth(t) = 0 /\ ~lock)

\* C3: whenever no dispatch is in progress, state and history are those of
\* running the dispatches one at a time, in the order they took the lock
C3_DispatchSerialized ==
  Quiescent =>
    LET r == Serial(InitialState, <<>>, calls)
    IN state = r.state /\ history = r.history

\* two INCREMENTs were in flight together (the one created later took the
\* lock first) and both are counted
C3_Witness ==
  /\ Quiescent
  /\ Len(calls) = 2
  /\ calls[1].ts > calls[2].ts
  /\ calls[1].type = "INCREMENT" /\ calls[2].type = "INCREMENT"
  /\ middleware = <<>>
  /\ GetValueByPath(state, TotalPath) = MkInt(2)

\* C4: the history never holds more than max_history entries, for every
\* max_history >= 0 (the claim as stated)
C4_HistoryBounded == Len(history) <= max_history

\* C5: with max_history = N >= 1, after k dispatches the history is the
\* last min(k, N) dispatched actions, in dispatch order
C5_HistoryKeepsLast ==
  max_history >= 1 =>
    history = LastN(committed, Min(Len(committed), max_history))

\* N + 5 actions were dispatched into a store with max_history = N
C5_Witness ==
  /\ max_history >= 1
  /\ Len(committed) = max_history + 5
  /\ Len(history) = max_history

\* C6: an action of a type the reducer has no branch for raises nothing,
\* is committed with the state unchanged, and adds exactly one entry, the
\* action, at the end of the history
C6_UnknownActionNoOp ==
  [][\A t \in Threads :
       /\ ( /\ InCall(t, "dispatch", "middleware")
            /\ Top(t).action.type \notin BuiltinTypes
            /\ Top(t).mwIdx > Len(middleware)
            /\ stack'[t] # stack[t] )
          => /\ Len(stack'[t]) = Depth(t)
             /\ stack'[t][Depth(t)].pc = "commit"
             /\ stack'[t][Depth(t)].new_state = Top(t).pre
       /\ ( /\ InCall(t, "dispatch", "commit")
            /\ Top(t).action.type \notin BuiltinTypes
            /\ stack'[t] # stack[t] )
          => /\ state' = Top(t).pre
             /\ state' = state
             /\ \E k \in 0..Len(history) :
                  history' = Append(SubSeq(history, k + 1, Len(history)),
                                    Top(t).action)
    ]_vars

\* an unknown action has just been committed on a store whose state had changed
C6_Witness ==
  \E t \in Threads :
    /\ InCall(t, "dispatch", "copy")
    /\ Top(t).action.type = "NOT_A_REAL_ACTION"
    /\ state # InitialState
    /\ Len(history) >= 2

\* C7: in a finished notification pass, the callback of a subscriber with a
\* selector was invoked iff the selector's value on the committed state
\* differs (by ==) from its value on the pre-dispatch state
C7_SelectorFiltering ==
  \A f \in Frames :
    PassComplete(f) =>
      \A i \in 1..Len(f.pass) :
        LET sub == subs[f.pass[i]]
        IN sub.selector # NoSelector =>
             ( (\E j \in 1..Len(f.called) : f.called[j] = f.pass[i])
               <=> ~PyEq(Select(sub.selector, f.new_state),
                         Select(sub.selector, f.pre)) )

\* a pass notified one selector subscriber and skipped another: the
\* dispatch changed the slice of the first only
C7_Witness ==
  \E f \in Frames :
    /\ PassComplete(f)
    /\ Len(f.pass) = 2
    /\ subs[f.pass[1]].selector = TotalPath
    /\ subs[f.pass[2]].selector = NamePath
    /\ f.action.type = "SET_VALUE"
    /\ f.called = <<f.pass[1]>>

\* C8: once the chain has run, every registered middleware was called
\* exactly once, in registration order, each with the action the previous
\* one handed on; the reducer ran afterwards, on the last one's output
C8_MiddlewareOrder ==
  \A f \in Frames :
    (f.fn = "dispatch" /\ f.pc \in {"commit", "copy", "notify"}) =>
      /\ Len(f.mwTrace) = Len(middleware)
      /\ \A i \in 1..Len(f.mwTrace) :
           /\ f.mwTrace[i].mw = i
           /\ f.mwTrace[i].got =
                ChainAction(f.pre, calls[Len(calls)], SubSeq(middleware, 1, i - 1))
      /\ f.action = ChainAction(f.pre, calls[Len(calls)], middleware)
      /\ f.new_state = reduce(ChainState(f.pre, middleware), f.action)

\* a chain of two middleware that both rewrote the action has run
C8_Witness ==
  \E f \in Frames :
    /\ f.fn = "dispatch" /\ f.pc = "commit"
    /\ middleware = <<"amount", "cap">>
    /\ f.mwTrace[2].got # calls[Len(calls)]
    /\ f.action.type = "BLOCKED"

\* C9: the state a dispatch commits is reduce(pre-dispatch state, final
\* action), whatever the middleware did to the state passed to them (the
\* claim as stated)
C9_MiddlewareStateReadOnly ==
  \A f \in Frames :
    (f.fn = "dispatch" /\ f.pc \in {"commit", "copy", "notify"}) =>
      f.new_state = reduce(f.pre, f.action)

\* C10: a finished notification pass has notified every subscriber of the
\* list as it was when the pass started exactly once, in order, also when
\* callbacks of the pass called unsubscribe; the subscribers they
\* unsubscribed are out of the list, and no call of the thread has raised
C10_UnsubscribeDuringPass ==
  \A t \in Threads :
    \A d \in 1..Depth(t) :
      LET f == stack[t][d]
      IN PassComplete(f) =>
           /\ f.notified = f.pass
           /\ \A s \in f.removed : \A i \in 1..Len(subscribers) : subscribers[i] # s
           /\ ~IsRaise(result[t])

\* the first of two subscribers unsubscribed itself in a pass that went on
\* to notify the second
C10_Witness ==
  \E f \in Frames :
    /\ PassComplete(f)
    /\ Len(f.pass) = 2
    /\ f.pass[1] \in f.removed
    /\ subscribers = <<f.pass[2]>>
    /\ f.called = f.pass

(***************************************************************************)
(* Paths: SET_VALUE, TOGGLE_BOOLEAN and INCREMENT.                         *)
(***************************************************************************)
\* the step in which the dispatch call of thread t ends, by return or raise
Completes(t) ==
  /\ Depth(t) = 1
  /\ Top(t).fn = "dispatch"
  /\ Len(stack'[t]) = 0

RECURSIVE ParentsAreMaps(_, _)
\* every segment before the last is absent from its parent or holds a map
ParentsAreMaps(v, parts) ==
  /\ Tag(v) = "map"
  /\ \/ Len(parts) <= 1
     \/ Head(parts) \notin DOMAIN Val(v)
     \/ ParentsAreMaps(Val(v)[Head(parts)], Tail(parts))

\* a dotted path of non-empty segments
WellFormed(path) ==
  /\ Tag(path) = "str"
  /\ \A i \in DOMAIN Val(path) : Val(path)[i] # ""

\* a well-formed path whose existing parents in st are maps
ValidPath(st, path) == WellFormed(path) /\ ParentsAreMaps(st, Val(path))

\* C11: a SET_VALUE of value V at a valid path P (non-empty segments, the
\* existing parent segments maps or absent) completes without raising, and
\* afterwards get_state_slice(P) is V and every proper prefix of P holds a
\* map (missing intermediate segments were created as maps)
C11_PathRoundTrip ==
  [][\A t \in Threads :
       LET f    == Top(t)
           path == f.action.payload.path
       IN (Completes(t) /\ f.action.type = "SET_VALUE" /\ ValidPath(f.pre, path)) =>
            /\ ~IsRaise(result'[t])
            /\ SliceOf(state', path) = f.action.payload.value
            /\ \A k \in 1..(Len(Val(path)) - 1) :
                 Tag(SliceOf(state', MkStr(SubSeq(Val(path), 1, k)))) = "map"]_vars

\* SET_VALUE at "x.y" has returned on a store that had no "x": the value
\* is read back and "x" holds a map
C11_Witness ==
  /\ Depth(MainThread) = 0
  /\ calls # <<>>
  /\ calls[Len(calls)].type = "SET_VALUE"
  /\ calls[Len(calls)].payload.path = MkStr(<<"x", "y">>)
  /\ Tag(result[MainThread]) = "map"
  /\ get_state_slice(MkStr(<<"x", "y">>)) = MkInt(1)
  /\ Tag(get_state_slice(MkStr(<<"x">>))) = "map"

\* C12: a SET_VALUE at a well-formed path one of whose existing parents
\* holds a value that is not a map completes without raising, and
\* afterwards the path reads back the value (the parent was replaced by a map)
C12_WriteThroughNonMap ==
  [][\A t \in Threads :
       LET f    == Top(t)
           path == f.action.payload.path
       IN (/\ Completes(t)
           /\ f.action.type = "SET_VALUE"
           /\ WellFormed(path)
           /\ ~ParentsAreMaps(f.pre, Val(path))) =>
            /\ ~IsRaise(result'[t])
            /\ SliceOf(state', path) = f.action.payload.value]_vars

\* the number INCREMENT is to start from: the current value if numeric, else 0
NumberOrZero(v) == IF IsNumber(v) THEN NumOf(v) ELSE 0

\* C13: an INCREMENT at a valid path completes without raising whatever
\* the path holds (nothing, null, a number, a string, a list, a map), and
\* afterwards the path holds the sum of the amount (1 if not given) and the
\* current value, a non-numeric or absent current value counting as 0
C13_IncrementNeverRaises ==
  [][\A t \in Threads :
       LET f      == Top(t)
           path   == f.action.payload.path
           amount == DictGet(f.action.payload, "amount", MkInt(1))
       IN (Completes(t) /\ f.action.type = "INCREMENT" /\ ValidPath(f.pre, path)) =>
            /\ ~IsRaise(result'[t])
            /\ SliceOf(state', path)
                 = MkInt(NumberOrZero(SliceOf(f.pre, path)) + NumOf(amount))]_vars

RECURSIVE SameExcept(_, _, _)
\* the trees old and new hold the same keys and values everywhere off the
\* path parts
SameExcept(old, new, parts) ==
  /\ Tag(new) = "map"
  /\ LET o == IF Tag(old) = "map" THEN Val(old) ELSE EmptyMap
         n == Val(new)
     IN /\ DOMAIN n = DOMAIN o \cup {Head(parts)}
        /\ \A k \in DOMAIN o \ {Head(parts)} : n[k] = o[k]
        /\ \/ Len(parts) = 1
           \/ SameExcept(DictGet(o, Head(parts), EmptyDict), n[Head(parts)],
                         Tail(parts))

\* C14: a TOGGLE_BOOLEAN at a valid path completes without raising and
\* leaves at the path the negation of the truth value of what it held
\* (true where it held nothing), every key off the path keeps its value,
\* and where the path held a boolean a second TOGGLE_BOOLEAN of the
\* committed state gives back the state before the first
C14_ToggleBoolean ==
  [][\A t \in Threads :
       LET f    == Top(t)
           path == f.action.payload.path
           old  == SliceOf(f.pre, path)
       IN (Completes(t) /\ f.action.type = "TOGGLE_BOOLEAN" /\ ValidPath(f.pre, path)) =>
            /\ ~IsRaise(result'[t])
            /\ SliceOf(state', path) = MkBool(~Truthy(old))
            /\ SameExcept(f.pre, state', Val(path))
            /\ Tag(old) = "bool" => reduce(state', f.action) = f.pre]_vars

\* "a.b" held true and was toggled twice: it holds true again, and both
\* calls returned a state
C14_Witness ==
  /\ Depth(MainThread) = 0
  /\ Len(calls) = 2
  /\ \A i \in 1..2 : /\ calls[i].type = "TOGGLE_BOOLEAN"
                      /\ calls[i].payload.path = MkStr(<<"a", "b">>)
  /\ Len(committed) = 2
  /\ Tag(result[MainThread]) = "map"
  /\ state = MkMap([a |-> MkMap([b |-> MkBool(TRUE)])])

(***************************************************************************)
(* What dispatch and the read accessors hand out.                          *)
(***************************************************************************)
\* C15: the value a dispatch returns is the whole state tree that this
\* dispatch committed: the result of reduce on the state the store held
\* when the action was reduced, which is the store's state at the return
\* and whose commit is the latest one (no other caller's dispatch has
\* committed in between)
C15_DispatchReturnsCommitted ==
  [][\A t \in Threads :
       LET f == Top(t)
       IN (Completes(t) /\ ~IsRaise(result'[t])) =>
            /\ result'[t] = reduce(f.pre, f.action)
            /\ result'[t] = state'
            /\ committed # <<>>
            /\ committed[Len(committed)] = f.action]_vars

\* two concurrent callers have both returned, each with the state its own
\* dispatch committed
C15_Witness ==
  /\ \A t \in Threads : Depth(t) = 0 /\ Tag(result[t]) = "map"
  /\ Len(committed) = 2
  /\ result["t1"] # result["t2"]

\* C16: a caller that changes in place what get_state, get_state_slice,
\* get_history or dispatch returned to it changes neither the store's state
\* nor its history
C16_ReadOnlyCopies ==
  [][\A t \in Threads : Mutate(t) => (state' = state /\ history' = history)]_vars

\* the caller has changed the dict it got: the store's state has not changed
C16_Witness ==
  /\ Tag(result[MainThread]) = "map"
  /\ "touched" \in DOMAIN Val(result[MainThread])
  /\ "cart" \in DOMAIN Val(result[MainThread])
  /\ "touched" \notin DOMAIN Val(state)
  /\ committed # <<>>

\* C17: a SET_VALUE or TOGGLE_BOOLEAN whose path is malformed (the empty
\* string, or a path with an empty segment such as a trailing dot) is
\* rejected: the dispatch raises and the state stays as it was
C17_MalformedPathRejected ==
  [][\A t \in Threads :
       LET f == Top(t)
       IN (/\ Completes(t)
           /\ f.action.type \in {"SET_VALUE", "TOGGLE_BOOLEAN"}
           /\ ~WellFormed(f.action.payload.path)) =>
            /\ IsRaise(result'[t])
            /\ state' = f.pre]_vars

(***************************************************************************)
(* Components, bindings and lists.                                         *)
(***************************************************************************)
\* C18: no two distinct mounted component instances have the same id (so
\* no two of them share an entry of the state container)
C18_UniqueComponentIds ==
  \A i, j \in DOMAIN instances :
    i # j => instances[i].id # instances[j].id

\* p and q are the same path, or one continues the other after a dot
DotRelated(p, q) ==
  \/ p = q
  \/ IsPrefix(p \o <<".">>, q)
  \/ IsPrefix(q \o <<".">>, p)

\* C19: a mutation of path P re-evaluates the binding of a subscription on
\* path Q exactly when P is Q or one of the two is a whole-segment prefix of
\* the other; a write to "user" re-evaluates every binding on "user.name",
\* a write to "users" none
C19_AncestorNotification ==
  [][\A p \in BindingPaths :
       WritePath(p) =>
         /\ \A sub \in subscriptions :
              sub \in evaluated' <=> DotRelated(p, sub[2])
         /\ evaluated' \subseteq subscriptions
         /\ p = User => \A sub \in subscriptions :
                          sub[2] = UserName => sub \in evaluated'
         /\ p = Users => \A sub \in evaluated' : sub[2] # UserName]_vars

\* "user" was written with bindings on "user.name" and on "users"
\* registered: the first was re-evaluated, the second was not
C19_Witness ==
  /\ written = User
  /\ <<"c1", UserName>> \in evaluated
  /\ <<"c2", Users>> \in subscriptions
  /\ <<"c2", Users>> \notin evaluated

\* C20: a reconcile keeps every node whose key is in the old and in the
\* new sequence (the same node, not rendered again), moves a kept node only
\* if its place relative to another kept node changed, removes exactly the
\* nodes of keys absent from the new sequence and renders fresh nodes
\* exactly for the new keys; the nodes end in the order of the new keys;
\* and from [a, b, c] to [a, c, b] it moves one node and creates and
\* destroys none
C20_ReconcileMinimal ==
  [][\A items \in ItemLists :
       Reconcile(items) =>
         LET old == KeysOf(dom.nodes)
             kept == Range(old) \cap Range(items)
         IN /\ KeysOf(dom'.nodes) = items
            /\ \A i \in DOMAIN old :
                 old[i] \in kept => dom.nodes[i] \in Range(dom'.nodes)
            /\ ops'.destroyed = Range(old) \ Range(items)
            /\ ops'.created = Range(items) \ Range(old)
            /\ \A n \in Range(dom'.nodes) :
                 n.key \in ops'.created <=> n.id > dom.made
            /\ \A n \in Range(dom'.nodes) : n.renders = 1
            /\ \A k \in ops'.moved :
                 /\ k \in kept
                 /\ \E k2 \in kept : ~OrderPreserved(old, items, {k, k2})
            /\ (old = <<"a", "b", "c">> /\ items = <<"a", "c", "b">>) =>
                 /\ Cardinality(ops'.moved) = 1
                 /\ ops'.created = {}
                 /\ ops'.destroyed = {}]_vars

\* [a, b, c] was rendered in that order and then reconciled to [a, c, b]:
\* the three nodes are the same ones, one was moved
C20_Witness ==
  /\ KeysOf(dom.nodes) = <<"a", "c", "b">>
  /\ [i \in DOMAIN dom.nodes |-> dom.nodes[i].id] = <<1, 3, 2>>
  /\ Cardinality(ops.moved) = 1
  /\ ops.created = {}
  /\ ops.destroyed = {}

\* C21: after a reconcile the container holds exactly one placeholder and
\* no item node if the sequence is empty, and no placeholder and exactly
\* one item node per key if it is not; a reconcile of an empty list to one
\* item removes the placeholder and renders exactly one node
C21_EmptyPlaceholder ==
  [][\A items \in ItemLists :
       Reconcile(items) =>
         /\ items = <<>> => (dom'.placeholders = 1 /\ dom'.nodes = <<>>)
         /\ items # <<>> =>
              /\ dom'.placeholders = 0
              /\ Len(dom'.nodes) = Cardinality(Range(items))
              /\ \A k \in Range(items) :
                   Cardinality({i \in DOMAIN dom'.nodes : dom'.nodes[i].key = k}) = 1
         /\ (dom.nodes = <<>> /\ dom.placeholders = 1 /\ Len(items) = 1) =>
              /\ Len(dom'.nodes) = 1
              /\ ops'.created = {items[1]}]_vars

\* a list was reconciled to the empty sequence and then to one item: the
\* placeholder is gone and the one node is there
C21_Witness ==
  /\ Len(dom.nodes) = 1
  /\ dom.placeholders = 0
  /\ dom.made >= 2
  /\ ops.created = {dom.nodes[1].key}
  /\ ops.destroyed = {}

(***************************************************************************)
(* Whole-state actions: SET_STATE and RESET.                               *)
(***************************************************************************)
Ada == MkMap([name |-> MkStr(<<"Ada">>)])

\* (type, payload) of the whole-state actions dispatched
WholePool ==
  {<<"SET_STATE", EmptyMap>>,
   <<"SET_STATE", [cart |-> MkInt(7)]>>,
   <<"SET_STATE", [user |-> Ada]>>,
   <<"SET_STATE", [cart |-> MkMap([total |-> MkInt(9)]), user |-> Ada]>>,
   <<"RESET", EmptyMap>>,
   <<"RESET", [state |-> MkMap([user |-> Ada])]>>,
   IncrementTotal}

\* one caller dispatching SET_STATE, RESET and an INCREMENT
NextWhole ==
  \/ \E tp \in WholePool : clock < MaxPasses /\ CallDispatch(MainThread, tp)
  \/ Acquire(MainThread)
  \/ Reduce(MainThread)
  \/ Commit(MainThread)
  \/ NotifyBegin(MainThread)
  \/ Return(MainThread)

SpecWhole == Init /\ [][NextWhole]_vars

\* C27: a RESET replaces the whole state: with a 'state' in its payload
\* the store holds that value afterwards, without one it holds the state
\* the store was constructed with
C27_ResetToInitial ==
  [][\A t \in Threads :
       LET f == Top(t)
       IN (Completes(t) /\ f.action.type = "RESET") =>
            /\ ~IsRaise(result'[t])
            /\ state' = IF "state" \in DOMAIN f.action.payload
                        THEN f.action.payload.state
                        ELSE InitialState]_vars

\* C28: a SET_STATE on a state that is a map completes without raising;
\* afterwards every key of the payload holds the payload's value, every
\* other top-level key holds the value it had, and the keys of the state
\* are those it had together with the payload's (none is removed)
C28_SetStateMerges ==
  [][\A t \in Threads :
       LET f       == Top(t)
           payload == f.action.payload
       IN (Completes(t) /\ f.action.type = "SET_STATE" /\ Tag(f.pre) = "map") =>
            /\ ~IsRaise(result'[t])
            /\ Tag(state') = "map"
            /\ DOMAIN Val(state') = DOMAIN Val(f.pre) \cup DOMAIN payload
            /\ \A k \in DOMAIN payload : Val(state')[k] = payload[k]
            /\ \A k \in DOMAIN Val(f.pre) \ DOMAIN payload :
                 Val(state')[k] = Val(f.pre)[k]]_vars

\* SET_STATE {'cart': 7} and then SET_STATE {'user': ...} have returned:
\* cart holds the first payload's value, user the second's
C28_Witness ==
  /\ Depth(MainThread) = 0
  /\ Len(calls) = 2
  /\ calls[1].type = "SET_STATE"
  /\ calls[2].type = "SET_STATE"
  /\ Len(committed) = 2
  /\ state = MkMap([cart |-> MkInt(7), user |-> Ada])

(***************************************************************************)
(* REMOVE_FROM_LIST.                                                       *)
(***************************************************************************)
ItemsPath == MkStr(<<"items">>)

BoxItemsPath == MkStr(<<"box", "items">>)

\* a state with a list holding an element twice, a list below a map, and
\* a key that holds no list
ListState ==
  MkMap([items |-> MkList(<<MkInt(1), MkInt(2), MkInt(1)>>),
         box   |-> MkMap([items |-> MkList(<<MkInt(3), MkInt(4)>>)]),
         n     |-> MkInt(5)])

\* payloads of the REMOVE_FROM_LIST actions dispatched: an index in range,
\* out of range or negative, a value present or absent, both, neither
RemovePayloads ==
  {[path |-> ItemsPath, index |-> MkInt(i)] : i \in {0, 1, 2, 5}}
    \cup {[path |-> ItemsPath, value |-> MkInt(v)] : v \in {1, 2, 9}}
    \cup {[path |-> ItemsPath, index |-> MkInt(i), value |-> MkInt(1)]
            : i \in {-1, 1, 5}}
    \cup {[path |-> ItemsPath],
          [path |-> BoxItemsPath, index |-> MkInt(1)],
          [path |-> BoxItemsPath, value |-> MkInt(3)],
          [path |-> MkStr(<<"n">>), index |-> MkInt(0)],
          [path |-> MkStr(<<"missing">>), value |-> MkInt(1)]}

RemovePool == {<<"REMOVE_FROM_LIST", p>> : p \in RemovePayloads}

\* Store.__init__ with the state above
InitListStore ==
  /\ state = ListState
  /\ history = <<>>
  /\ subscribers = <<>>
  /\ subs = EmptyMap
  /\ middleware = <<>>
  /\ max_history = MaxHistory
  /\ lock = FALSE
  /\ stack = [t \in Threads |-> <<>>]
  /\ unsubFns = {}
  /\ result = [t \in Threads |-> NoResult]
  /\ clock = 0
  /\ calls = <<>>
  /\ committed = <<>>
  /\ alias = [t \in Threads |-> NoObject]
  /\ InitUi

\* one caller dispatching REMOVE_FROM_LIST
NextRemove ==
  \/ \E tp \in RemovePool : clock < MaxPasses /\ CallDispatch(MainThread, tp)
  \/ Acquire(MainThread)
  \/ Reduce(MainThread)
  \/ Commit(MainThread)
  \/ NotifyBegin(MainThread)
  \/ Return(MainThread)

SpecRemove == InitListStore /\ [][NextRemove]_vars

\* the sequence s without its element at the 1-based position i
Without(s, i) == SubSeq(s, 1, i - 1) \o SubSeq(s, i + 1, Len(s))

\* C29: a REMOVE_FROM_LIST completes without raising and removes at most
\* one element of the list at its path: the element at 'index' when
\* 0 <= index < len, otherwise the first element equal to 'value' when a
\* value is given and present, otherwise nothing; the remaining elements
\* keep their order, and every key off the path keeps its value (a path
\* that holds no list leaves the whole state unchanged)
C29_RemoveAtMostOne ==
  [][\A t \in Threads :
       LET f       == Top(t)
           payload == f.action.payload
           path    == payload.path
           list_value == SliceOf(f.pre, path)
           old     == Val(list_value)
           inRange == /\ "index" \in DOMAIN payload
                      /\ 0 <= NumOf(payload.index)
                      /\ NumOf(payload.index) < Len(old)
           found   == /\ "value" \in DOMAIN payload
                      /\ \E j \in DOMAIN old : old[j] = payload.value
           first   == CHOOSE j \in DOMAIN old :
                        /\ old[j] = payload.value
                        /\ \A k \in 1..(j - 1) : old[k] # payload.value
       IN (Completes(t) /\ f.action.type = "REMOVE_FROM_LIST") =>
            /\ ~IsRaise(result'[t])
            /\ IF Tag(list_value) # "list" \/ ~(inRange \/ found)
               THEN state' = f.pre
               ELSE /\ SliceOf(state', path)
                         = MkList(IF inRange
                                  THEN Without(old, NumOf(payload.index) + 1)
                                  ELSE Without(old, first))
                    /\ Len(Val(SliceOf(state', path))) = Len(old) - 1
                    /\ SameExcept(f.pre, state', Val(path))]_vars

\* 'items' list_value [1, 2, 1] and a REMOVE_FROM_LIST of the value 1 has
\* returned: the first 1 is gone and the second is kept
C29_Witness ==
  /\ Depth(MainThread) = 0
  /\ Len(calls) = 1
  /\ calls[1].payload = [path |-> ItemsPath, value |-> MkInt(1)]
  /\ Len(committed) = 1
  /\ get_state_slice(ItemsPath) = MkList(<<MkInt(2), MkInt(1)>>)

(***************************************************************************)
(* StoreManager: named stores and the default store.                       *)
(***************************************************************************)
StoreNames == {"a", "b", "c"}

\* name in self.stores
Registered(dict, name) == \E i \in DOMAIN dict : dict[i].name = name

\* self.stores.get(name)
StoreGet(dict, name) ==
  IF Registered(dict, name)
  THEN (CHOOSE e \in Range(dict) : e.name = name).store
  ELSE NoStore

\* self.stores[name] = store: a new key goes last, a key already there
\* keeps its place
StoreSet(dict, name, store) ==
  IF Registered(dict, name)
  THEN [i \in DOMAIN dict |->
          IF dict[i].name = name THEN [name |-> name, store |-> store]
          ELSE dict[i]]
  ELSE Append(dict, [name |-> name, store |-> store])

\* del self.stores[name]
StoreDel(dict, name) == SelectSeq(dict, LAMBDA e : e.name # name)

\* StoreManager.create_store(name)
CreateStore(name) ==
  /\ built < MaxStores
  /\ built' = built + 1
  /\ stores' = StoreSet(stores, name, built + 1)
  /\ default_store' = IF default_store = NoStore THEN built + 1
                      ELSE default_store
  /\ UNCHANGED <<storeVars, uiVars, pageVars, serverVars>>

\* StoreManager.remove_store(name), for a name in self.stores; the
\* comparison is made after the del
RemoveStore(name) ==
  /\ Registered(stores, name)
  /\ stores' = StoreDel(stores, name)
  /\ default_store' =
       IF default_store = StoreGet(stores', name)
       THEN IF stores' # <<>> THEN stores'[1].store ELSE NoStore
       ELSE default_store
  /\ UNCHANGED <<built, storeVars, uiVars, pageVars, serverVars>>

NextManager ==
  \/ \E name \in StoreNames : CreateStore(name)
  \/ \E name \in StoreNames : RemoveStore(name)

SpecManager == Init /\ [][NextManager]_vars

\* C30: the default store of a StoreManager is None or a store currently
\* registered under some name, whatever stores were created, re-created
\* under a name in use, or removed
C30_DefaultRegistered ==
  \/ default_store = NoStore
  \/ \E i \in DOMAIN stores : stores[i].store = default_store

(***************************************************************************)
(* Two-way (model) bindings: inputs bound to one path.                     *)
(***************************************************************************)
\* the values an input can show
InputValues == {"", "x", "y"}

\* a write of the value the bindings display starts a notification cycle too
NotifiesAlways(current, value) == TRUE

\* a write through a model binding starts a notification cycle unless it
\* writes the value the bindings currently display
Notifies(current, value) == current # value

\* a write-back to an input triggers the input's change handler unless it
\* writes the value the input already displays
Retriggers(displayed, value) == displayed # value

\* the inputs in the order the engine re-renders them
RenderOrder == <<"A", "B", "C">>

\* the change events the write-back of value raises, in render order
Retriggered(shown, value) ==
  LET due == SelectSeq(RenderOrder, LAMBDA j : Retriggers(shown[j], value))
  IN [k \in DOMAIN due |-> [node |-> due[k], value |-> value]]

\* the user changes what input i shows: its change event is raised while
\* no other event is being handled
InputEvent(i, v) ==
  /\ pending = <<>>
  /\ events < MaxEvents
  /\ v # inputs[i]
  /\ inputs' = [inputs EXCEPT ![i] = v]
  /\ pending' = <<[node |-> i, value |-> v]>>
  /\ events' = events + 1
  /\ cycles' = 0
  /\ handled' = 0
  /\ UNCHANGED <<model, phase, hooks, held, rendered, thrown, reported, vetoed, mutations>>
  /\ UNCHANGED <<storeVars, uiVars, managerVars, serverVars>>

\* the change handler of a model binding: the write through set(), then
\* the notification cycle that writes the value back to every bound input
HandleChange ==
  /\ pending # <<>>
  /\ LET e == Head(pending)
     IN /\ handled' = handled + 1
        /\ IF Notifies(model, e.value)
           THEN /\ model' = e.value
                /\ cycles' = cycles + 1
                /\ inputs' = [j \in InputNodes |-> e.value]
                /\ pending' = Tail(pending) \o Retriggered(inputs, e.value)
           ELSE /\ pending' = Tail(pending)
                /\ UNCHANGED <<model, cycles, inputs>>
  /\ UNCHANGED <<events, phase, hooks, held, rendered, thrown, reported, vetoed, mutations>>
  /\ UNCHANGED <<storeVars, uiVars, managerVars, serverVars>>

\* the application writes the bound path itself: set(), then the
\* notification cycle
WriteModel(v) ==
  /\ pending = <<>>
  /\ events < MaxEvents
  /\ Notifies(model, v)
  /\ model' = v
  /\ inputs' = [j \in InputNodes |-> v]
  /\ pending' = Retriggered(inputs, v)
  /\ events' = events + 1
  /\ cycles' = 1
  /\ handled' = 0
  /\ UNCHANGED <<phase, hooks, held, rendered, thrown, reported, vetoed, mutations>>
  /\ UNCHANGED <<storeVars, uiVars, managerVars, serverVars>>

NextInputs ==
  \/ \E i \in InputNodes, v \in InputValues : InputEvent(i, v)
  \/ \E v \in InputValues : WriteModel(v)
  \/ HandleChange

SpecInputs == Init /\ [][NextInputs]_vars

\* C22: one input event (or one write by the application) starts at most
\* one notification cycle and runs
\* at most one change handler per bound input, so the update terminates;
\* the cycle starts after the write through set() (the state holds the
\* event's value and every bound input shows it), the write-back raises no
\* change event for an input that already showed the value, and when the
\* event is fully handled every bound input shows the state's value
C22_IdempotentWriteback ==
  [][/\ cycles' <= 1
     /\ handled' <= Cardinality(InputNodes)
     /\ (cycles' > cycles /\ pending # <<>>) =>
          /\ model' = Head(pending).value
          /\ \A j \in InputNodes : inputs'[j] = model'
     /\ pending # <<>> =>
          \A k \in Len(pending)..Len(pending') :
            inputs[pending'[k].node] # pending'[k].value
     /\ (pending' = <<>> /\ cycles' = 1) =>
          \A j \in InputNodes : inputs'[j] = model']_vars

\* an input event has been handled: its cycle wrote the value to the
\* two other inputs, whose change handlers ran and started no second cycle
C22_Witness ==
  /\ events = 1
  /\ pending = <<>>
  /\ handled = 3
  /\ cycles = 1
  /\ model = "x"
  /\ inputs = [j \in InputNodes |-> "x"]

(***************************************************************************)
(* Lifecycle coordinator: Unmounted -> Initializing -> Mounted ->          *)
(* Updating -> Mounted (loop) -> Destroying -> Destroyed.                  *)
(***************************************************************************)
\* the paths the binding declarations of each component refer to
Declared == [c \in Components |-> IF c = "c1" THEN {UserName} ELSE {User, Users}]

\* the components before c in document order, which mount-scan finds first
Before(c) == IF c = "c2" THEN {"c1"} ELSE {}

\* what a hook invocation does: return a truthy value, return a falsy
\* value, or throw
HookOutcomes == {"ok", "falsy", "throw"}

\* the state a transition ends in when a throwing hook aborts it
ProceedsUnlessThrown(outcome, target, current) ==
  IF outcome = "throw" THEN current ELSE target

\* the state a transition ends in: the target, whatever its hook did
Proceeds(outcome, target, current) == target

\* a component takes update hooks while it holds subscriptions
UpdatableWhileSubscribed(ph) == ph \in {"Mounted", "Destroying"}

\* a component takes update hooks while it is Mounted
Updatable(ph) == ph = "Mounted"

\* a veto of one component cancels the re-render of the whole mutation
RerendersUnlessAnyVeto(affected, vetoes) ==
  IF vetoes = {} THEN affected ELSE {}

\* the components re-rendered for a mutation: those affected whose
\* beforeUpdate did not veto it
Rerenders(affected, vetoes) == affected \ vetoes

\* the subscriptions left when a component keeps those of its last path
ReleaseButOne(subsc, c) ==
  {sub \in subsc : sub[1] # c \/ sub[2] = Users}

\* the subscriptions left when those of component c are released
Release(subsc, c) == {sub \in subsc : sub[1] # c}

\* the coordinator's catch: the exception reported when hook of c ended
Report(c, hook, outcome) ==
  IF outcome = "throw" THEN {<<c, hook>>} ELSE {}

\* the exception hook of c threw
Throw(c, hook, outcome) ==
  IF outcome = "throw" THEN {<<c, hook>>} ELSE {}

\* mount-scan finds component c: its state is created and init runs
Initialize(c, outcome) ==
  /\ phase[c] = "Unmounted"
  /\ \A d \in Before(c) : phase[d] \notin {"Unmounted", "Initializing"}
  /\ held' = held \cup {c}
  /\ hooks' = [hooks EXCEPT ![c] = Append(@, "init")]
  /\ thrown' = Throw(c, "init", outcome)
  /\ reported' = Report(c, "init", outcome)
  /\ phase' = [phase EXCEPT ![c] = Proceeds(outcome, "Initializing", @)]
  /\ UNCHANGED <<rendered, vetoed, mutations, inputs, model, pending, cycles,
                 handled, events>>
  /\ UNCHANGED <<storeVars, uiVars, managerVars, serverVars>>

\* component c is attached: its binding declarations are subscribed and
\* mounted runs
Attach(c, outcome) ==
  /\ phase[c] = "Initializing"
  /\ subscriptions' = subscriptions \cup {<<c, path>> : path \in Declared[c]}
  /\ hooks' = [hooks EXCEPT ![c] = Append(@, "mounted")]
  /\ thrown' = Throw(c, "mounted", outcome)
  /\ reported' = Report(c, "mounted", outcome)
  /\ phase' = [phase EXCEPT ![c] = Proceeds(outcome, "Mounted", @)]
  /\ UNCHANGED <<held, rendered, vetoed, mutations, inputs, model, pending,
                 cycles, handled, events>>
  /\ UNCHANGED <<storeVars, instances, states, written, evaluated, dom, ops,
                 managerVars, serverVars>>

\* a state mutation of path p: every component with a subscription it
\* concerns gets beforeUpdate, and unless that vetoes, its bindings are
\* re-rendered and updated runs
Mutation(p, before, after) ==
  /\ mutations < MaxMutations
  /\ mutations' = mutations + 1
  /\ LET affected == {c \in Components :
                        /\ Updatable(phase[c])
                        /\ \E sub \in subscriptions :
                             sub[1] = c /\ Affects(p, sub[2])}
         vetoes   == {c \in affected : before[c] = "falsy"}
         going    == {c \in Rerenders(affected, vetoes) :
                        Proceeds(before[c], "Updating", phase[c]) = "Updating"}
     IN /\ \A c \in Components \ affected : before[c] = "ok"
        /\ \A c \in Components \ going : after[c] = "ok"
        /\ written' = p
        /\ vetoed' = vetoes
        /\ rendered' = going
        /\ evaluated' = {sub \in subscriptions :
                           sub[1] \in going /\ Affects(p, sub[2])}
        /\ hooks' = [c \in Components |->
                       IF c \in going
                       THEN hooks[c] \o <<"beforeUpdate", "updated">>
                       ELSE IF c \in affected
                       THEN Append(hooks[c], "beforeUpdate")
                       ELSE hooks[c]]
        /\ thrown' = UNION ({Throw(c, "beforeUpdate", before[c]) : c \in affected}
                               \cup {Throw(c, "updated", after[c]) : c \in going})
        /\ reported' = UNION ({Report(c, "beforeUpdate", before[c]) : c \in affected}
                                 \cup {Report(c, "updated", after[c]) : c \in going})
  /\ UNCHANGED <<phase, held, inputs, model, pending, cycles, handled, events>>
  /\ UNCHANGED <<storeVars, instances, states, subscriptions, dom, ops,
                 managerVars, serverVars>>

\* destroy of component c begins: beforeDestroy runs
BeginDestroy(c, outcome) ==
  /\ phase[c] = "Mounted"
  /\ hooks' = [hooks EXCEPT ![c] = Append(@, "beforeDestroy")]
  /\ thrown' = Throw(c, "beforeDestroy", outcome)
  /\ reported' = Report(c, "beforeDestroy", outcome)
  /\ phase' = [phase EXCEPT ![c] = Proceeds(outcome, "Destroying", @)]
  /\ UNCHANGED <<held, rendered, vetoed, mutations, inputs, model, pending,
                 cycles, handled, events>>
  /\ UNCHANGED <<storeVars, uiVars, managerVars, serverVars>>

\* the state and the subscriptions of the component being destroyed are
\* released
ReleaseComponent(c) ==
  /\ phase[c] = "Destroying"
  /\ c \in held
  /\ held' = held \ {c}
  /\ subscriptions' = Release(subscriptions, c)
  /\ thrown' = {}
  /\ reported' = {}
  /\ UNCHANGED <<phase, hooks, rendered, vetoed, mutations,
                 inputs, model, pending, cycles, handled, events>>
  /\ UNCHANGED <<storeVars, instances, states, written, evaluated, dom, ops,
                 managerVars, serverVars>>

\* destroy of component c ends: destroyed runs, as a notification
FinishDestroy(c, outcome) ==
  /\ phase[c] = "Destroying"
  /\ c \notin held
  /\ hooks' = [hooks EXCEPT ![c] = Append(@, "destroyed")]
  /\ thrown' = Throw(c, "destroyed", outcome)
  /\ reported' = Report(c, "destroyed", outcome)
  /\ phase' = [phase EXCEPT ![c] = Proceeds(outcome, "Destroyed", @)]
  /\ UNCHANGED <<held, rendered, vetoed, mutations, inputs, model, pending,
                 cycles, handled, events>>
  /\ UNCHANGED <<storeVars, uiVars, managerVars, serverVars>>

\* the paths mutated
MutatedPaths == {User, UserName, Users}

NextLifecycle ==
  \/ \E c \in Components, outcome \in {"ok", "throw"} : Initialize(c, outcome)
  \/ \E c \in Components, outcome \in {"ok", "throw"} : Attach(c, outcome)
  \/ \E p \in MutatedPaths, before \in [Components -> HookOutcomes],
        after \in [Components -> {"ok", "throw"}] : Mutation(p, before, after)
  \/ \E c \in Components, outcome \in {"ok", "throw"} : BeginDestroy(c, outcome)
  \/ \E c \in Components : ReleaseComponent(c)
  \/ \E c \in Components, outcome \in {"ok", "throw"} : FinishDestroy(c, outcome)

SpecLifecycle == Init /\ [][NextLifecycle]_vars

\* the hooks h invoked for one component come in the order init, mounted,
\* update hooks, beforeDestroy, destroyed
HookOrder(h) ==
  \A i \in DOMAIN h :
    /\ i = 1 <=> h[i] = "init"
    /\ i = 2 <=> h[i] = "mounted"
    /\ h[i] \in {"beforeUpdate", "updated"} =>
         \A j \in 1..i : h[j] \notin {"beforeDestroy", "destroyed"}
    /\ h[i] = "updated" => h[i - 1] = "beforeUpdate"
    /\ h[i] = "beforeDestroy" => \A j \in 1..(i - 1) : h[j] # "beforeDestroy"
    /\ h[i] = "destroyed" => i = Len(h) /\ h[i - 1] = "beforeDestroy"

\* C23: for every component instance the hooks invoked so far are a
\* prefix of init, mounted, then update hooks (each updated straight after
\* its beforeUpdate), then beforeDestroy, destroyed: mounted never comes
\* before init, no update hook comes before mounted or after
\* beforeDestroy, and nothing comes after destroyed
C23_HookOrder == \A c \in Components : HookOrder(hooks[c])

\* a component has gone through its whole life with two updates
C23_Witness ==
  /\ phase["c1"] = "Destroyed"
  /\ hooks["c1"] = <<"init", "mounted", "beforeUpdate", "updated",
                     "beforeUpdate", "updated", "beforeDestroy", "destroyed">>

\* the state the transition of a hook leads to
TargetOf(hook) ==
  CASE hook = "init" -> "Initializing"
    [] hook \in {"mounted", "beforeUpdate", "updated"} -> "Mounted"
    [] hook = "beforeDestroy" -> "Destroying"
    [] hook = "destroyed" -> "Destroyed"

\* C24: whenever a hook of a component has run, thrown or not, the
\* component is in the state the hook's transition leads to, every
\* exception thrown in the step has been reported, and a component that is
\* Destroyed holds no state and no subscription
C24_ThrowingHookProceeds ==
  [][\A c \in Components :
       Len(hooks'[c]) > Len(hooks[c]) =>
         /\ phase'[c] = TargetOf(hooks'[c][Len(hooks'[c])])
         /\ thrown' \subseteq reported'
         /\ phase'[c] = "Destroyed" =>
              /\ c \notin held'
              /\ \A sub \in subscriptions' : sub[1] # c]_vars

\* the destroyed hook of a component threw: the exception was reported
\* and the component is Destroyed with state and subscriptions released
C24_Witness ==
  /\ <<"c2", "destroyed">> \in thrown
  /\ <<"c2", "destroyed">> \in reported
  /\ phase["c2"] = "Destroyed"
  /\ "c2" \notin held
  /\ \A sub \in subscriptions : sub[1] # "c2"

C26_NoDanglingSubscription ==
  [][/\ \A sub \in subscriptions' : phase'[sub[1]] # "Destroyed"
     /\ \A c \in Components :
          /\ phase'[c] = "Destroyed" => c \notin held'
          /\ (/\ Len(hooks'[c]) > Len(hooks[c])
              /\ hooks'[c][Len(hooks'[c])] = "destroyed") =>
               /\ c \notin held
               /\ \A sub \in subscriptions : sub[1] # c
     /\ mutations' # mutations =>
          \A sub \in evaluated' :
            sub \in subscriptions' /\ phase'[sub[1]] # "Destroyed"]_vars

\* c2 was updated once and then destroyed, and a later mutation of
\* "users" notified nothing: c2 holds no state and no subscription
C26_Witness ==
  /\ phase["c2"] = "Destroyed"
  /\ hooks["c2"] = <<"init", "mounted", "beforeUpdate", "updated",
                     "beforeDestroy", "destroyed">>
  /\ mutations = 2
  /\ written = Users
  /\ evaluated = {}
  /\ "c2" \notin held
  /\ \A sub \in subscriptions : sub[1] # "c2"

(***************************************************************************)
(* Subscribers: the initial notification, unsubscribe, failing callbacks.  *)
(***************************************************************************)
\* the step in which the subscribe call of thread t makes its initial
\* notify and returns
SubscribeReturns(t) ==
  /\ InCall(t, "subscribe", "init")
  /\ Len(stack'[t]) = Depth(t) - 1

\* C31: when subscribe returns, the callback of the new subscriber has
\* been invoked by the @@INIT notify, with the state the store holds (its
\* selected slice when a selector is given), whatever the state and the
\* selector, and the action history is what it was
C31_InitNotification ==
  [][\A t \in Threads :
       SubscribeReturns(t) =>
         /\ Fires(subs[Top(t).sub], Top(t).arg)
         /\ Top(t).arg = state
         /\ history' = history]_vars

\* two threads on one store, each subscribing and dispatching
NextSubConc ==
  \E t \in Threads :
    \/ \E selector \in {NoSelector, TotalPath} : CallSubscribe(t, "log", selector)
    \/ SubLoad(t)
    \/ SubInit(t)
    \/ \E tp \in {IncrementTotal, SetName} : clock < MaxPasses /\ CallDispatch(t, tp)
    \/ Acquire(t)
    \/ Reduce(t)
    \/ Commit(t)
    \/ NotifyBegin(t)
    \/ Notify(t)
    \/ Return(t)

SpecSubConc == Init /\ [][NextSubConc]_vars

\* C36: a notification pass of a dispatch invokes the callback of no
\* subscriber whose subscribe call has not yet made its @@INIT notify,
\* also when the subscribe runs on another thread
C36_InitComesFirst ==
  [][\A t \in Threads :
       (InCall(t, "dispatch", "notify") /\ ~PassComplete(Top(t))
          /\ stack'[t] # stack[t]) =>
         LET s == PassList(Top(t))[Top(t).idx]
         IN Fires(subs[s], state) =>
              \A u \in Threads :
                ~(Depth(u) > 0 /\ Top(u).fn = "subscribe" /\ Top(u).sub = s)]_vars


(***************************************************************************)
(* C32: unsubscribing.                                                     *)
(***************************************************************************)

\* the subscribers of list that are also in other, in the order of list
Common(list, other) == SelectSeq(list, LAMBDA x : x \in Range(other))

\* C32: a notification pass that begins once the unsubscribe function of a
\* subscriber has been called does not notify that subscriber, so only a
\* pass already in progress can still invoke its callback; the list of
\* subscribers loses a subscriber only at the first call of its unsubscribe
\* function (a second call removes nothing), and the subscribers that stay
\* keep their order.
C32_UnsubscribedStaysSilent ==
  [][
      /\ \A t \in Threads :
           (InCall(t, "dispatch", "copy") /\ stack'[t] # stack[t]) =>
             \A i \in 1..Len(subscribers) : ~subs[subscribers[i]].unsubscribed
      /\ \A u \in Range(subscribers) \ Range(subscribers') :
           ~subs[u].unsubscribed /\ subs'[u].unsubscribed
      /\ Common(subscribers, subscribers') = Common(subscribers', subscribers)
    ]_vars

\* a dispatch made after subscriber 1 was unsubscribed has finished a pass
\* that invoked subscriber 2 and not subscriber 1
C32_Witness ==
  /\ 1 \in DOMAIN subs /\ subs[1].unsubscribed
  /\ subscribers = <<2>>
  /\ \E t \in Threads :
       /\ InCall(t, "dispatch", "notify") /\ PassComplete(Top(t))
       /\ Top(t).pass = <<2>> /\ Top(t).called = <<2>>

(***************************************************************************)
(* C33: subscribers that raise.                                            *)
(***************************************************************************)

\* the (callback, selector) pairs of this specification: callbacks that
\* raise or log, behind no selector, a selector, or a selector that raises
FaultyKinds ==
  {<<cb, sel>> : cb \in {"log", "raise"}, sel \in {NoSelector, TotalPath, BadSelector}}

NextFaulty ==
  \/ \E tp \in {IncrementTotal, SetName} :
       clock < MaxPasses /\ CallDispatch(MainThread, tp)
  \/ \E kind \in FaultyKinds : CallSubscribe(MainThread, kind[1], kind[2])
  \/ Acquire(MainThread)
  \/ Reduce(MainThread)
  \/ Commit(MainThread)
  \/ NotifyBegin(MainThread)
  \/ Notify(MainThread)
  \/ Return(MainThread)
  \/ SubLoad(MainThread)
  \/ SubInit(MainThread)

SpecFaulty == Init /\ [][NextFaulty]_vars

\* the positions of the pass of frame f whose subscriber raised: its
\* selector raises, or its callback raises and was invoked
Faulted(f) ==
  {i \in 1..Len(f.pass) :
     \/ subs[f.pass[i]].selector = BadSelector
     \/ subs[f.pass[i]].callback = "raise" /\ f.pass[i] \in Range(f.called)}

\* C33: an exception raised by the selector or the callback of a subscriber
\* is caught and reported and does not escape dispatch: the dispatch has
\* committed its state and its history entry, returns the committed state
\* and not an exception, has notified every subscriber of the pass, has
\* invoked every subscriber without a selector, and has reported exactly the
\* exceptions raised.
C33_SubscriberErrorsContained ==
  [][\A t \in Threads :
       LET f == Top(t)
       IN (Completes(t) /\ f.pc = "notify") =>
            /\ ~IsRaise(result'[t])
            /\ result'[t] = state'
            /\ committed # <<>> /\ committed[Len(committed)] = f.action
            /\ history # <<>> /\ history[Len(history)] = f.action
            /\ f.notified = f.pass
            /\ \A i \in 1..Len(f.pass) :
                 subs[f.pass[i]].selector = NoSelector =>
                   f.pass[i] \in Range(f.called)
            /\ f.errors = Cardinality(Faulted(f))]_vars

\* a finished pass in which a subscriber whose callback raised was followed
\* by a subscriber that was invoked all the same
C33_Witness ==
  \E t \in Threads :
    /\ InCall(t, "dispatch", "notify") /\ PassComplete(Top(t))
    /\ \E j, k \in 1..Len(Top(t).pass) :
         /\ j < k
         /\ subs[Top(t).pass[j]].callback = "raise"
         /\ subs[Top(t).pass[j]].selector = NoSelector
         /\ subs[Top(t).pass[k]].callback = "log"
         /\ subs[Top(t).pass[k]].selector = NoSelector
         /\ Top(t).pass[k] \in Range(Top(t).called)
    /\ Top(t).errors = 1

(***************************************************************************)
(* C35: dispatches that fail.                                              *)
(***************************************************************************)

\* SET_VALUE below an integer: _set_value_by_path raises TypeError
SetBelowTotal ==
  <<"SET_VALUE", [path |-> MkStr(<<"cart", "total", "x">>), value |-> MkInt(1)]>>

NextFailing ==
  \/ \E kind \in {"logging", "mutate", "raise"} : AddMiddleware(MainThread, kind)
  \/ \E tp \in {IncrementTotal, SetBelowTotal} :
       clock < MaxPasses /\ CallDispatch(MainThread, tp)
  \/ CallSubscribe(MainThread, "log", NoSelector)
  \/ SubLoad(MainThread)
  \/ SubInit(MainThread)
  \/ Acquire(MainThread)
  \/ Middleware(MainThread)
  \/ Reduce(MainThread)
  \/ Commit(MainThread)
  \/ NotifyBegin(MainThread)
  \/ Notify(MainThread)
  \/ Return(MainThread)

SpecFailing == Init /\ [][NextFailing]_vars

\* C35: a dispatch whose middleware or reducer raises hands the exception
\* to its caller and leaves the store as it was before the call: the state
\* is the state the dispatch found, nothing was committed to the history,
\* no subscriber was notified, and the lock is released.
C35_FailedDispatchAtomic ==
  [][\A t \in Threads :
       LET f == Top(t)
       IN (Completes(t) /\ IsRaise(result'[t])) =>
            /\ state' = f.pre
            /\ history' = history /\ committed' = committed
            /\ f.pc = "middleware" /\ f.notified = <<>>
            /\ ~lock']_vars

(***************************************************************************)
(* C37: who can change the state.                                          *)
(***************************************************************************)

CartPath == MkStr(<<"cart">>)

\* store = SimpleStore(initial_state) with a non-empty dict: __init__ keeps
\* `initial_state or {}`, the caller's own dict, which the caller still holds
InitShared ==
  /\ state = InitialState
  /\ history = <<>>
  /\ max_history = MaxHistory
  /\ subscribers = <<>>
  /\ subs = EmptyMap
  /\ middleware = <<>>
  /\ lock = FALSE
  /\ stack = [t \in Threads |-> <<>>]
  /\ unsubFns = {}
  /\ result = [t \in Threads |-> IF t = MainThread THEN InitialState ELSE NoResult]
  /\ clock = 0
  /\ calls = <<>>
  /\ committed = <<>>
  /\ alias = [t \in Threads |-> IF t = MainThread THEN StateObject ELSE NoObject]
  /\ InitUi

NextShared ==
  \/ \E cb \in {"log", "scribble"}, selector \in {NoSelector, CartPath, TotalPath} :
       CallSubscribe(MainThread, cb, selector)
  \/ SubLoad(MainThread)
  \/ SubInit(MainThread)
  \/ \E tp \in {IncrementTotal, SetName} :
       clock < MaxPasses /\ CallDispatch(MainThread, tp)
  \/ Acquire(MainThread)
  \/ Reduce(MainThread)
  \/ Commit(MainThread)
  \/ NotifyBegin(MainThread)
  \/ Notify(MainThread)
  \/ Return(MainThread)
  \/ GetState(MainThread)
  \/ Mutate(MainThread)

SpecShared == InitShared /\ [][NextShared]_vars

\* C37: the state changes only in the step in which a dispatch commits, so
\* get_state returns the same value between two commits, whatever
\* subscriber callbacks do with their state argument and whatever the
\* caller does to the dict it constructed the store with.
C37_StateChangesOnlyOnCommit ==
  [][state' # state =>
       \E t \in Threads :
         /\ InCall(t, "dispatch", "commit")
         /\ stack'[t] # stack[t]
         /\ Len(committed') = Len(committed) + 1]_vars

(***************************************************************************)
(* C34, C38: StateManager and the Flask session.                           *)
(***************************************************************************)

\* d.pop(key, None) on a dict
DictPop(d, key) == [k \in DOMAIN d \ {key} |-> d[k]]

\* StateManager.get_state: the session entry if there is one, else the
\* in-memory entry, else {}
get_state(component_id) ==
  IF component_id \in DOMAIN session THEN session[component_id]
  ELSE DictGet(states, component_id, EmptyMap)

\* StateManager.set_state(component_id, st, persist)
set_state(component_id, st, persist) ==
  /\ states' = DictSet(states, component_id, st)
  /\ session' = IF persist THEN DictSet(session, component_id, st) ELSE session
  /\ last_call' = [op |-> "set_state", id |-> component_id, arg |-> st,
                   persist |-> persist]
  /\ UNCHANGED <<storeVars, instances, subscriptions, written, evaluated, dom, ops,
                 pageVars, managerVars, connections, component_subscribers,
                 rooms, sent>>

\* the states and the session after update_state: get_state hands out the
\* dict the session (or else _states) holds, current.update changes it in
\* place, and set_state stores it
Updated(component_id, updates, persist) ==
  LET current == updates @@ get_state(component_id)
  IN [states  |-> DictSet(states, component_id, current),
      session |-> IF component_id \in DOMAIN session \/ persist
                  THEN DictSet(session, component_id, current)
                  ELSE session]

\* StateManager.update_state(component_id, updates, persist)
update_state(component_id, updates, persist) ==
  /\ states' = Updated(component_id, updates, persist).states
  /\ session' = Updated(component_id, updates, persist).session
  /\ last_call' = [op |-> "update_state", id |-> component_id, arg |-> updates,
                   persist |-> persist]
  /\ UNCHANGED <<storeVars, instances, subscriptions, written, evaluated, dom, ops,
                 pageVars, managerVars, connections, component_subscribers,
                 rooms, sent>>

\* StateManager.clear_state(component_id)
clear_state(component_id) ==
  /\ states' = DictPop(states, component_id)
  /\ session' = DictPop(session, component_id)
  /\ last_call' = [op |-> "clear_state", id |-> component_id, arg |-> EmptyMap,
                   persist |-> FALSE]
  /\ UNCHANGED <<storeVars, instances, subscriptions, written, evaluated, dom, ops,
                 pageVars, managerVars, connections, component_subscribers,
                 rooms, sent>>

AllowedKey == "_allowed_updates"

\* `k in allowed_updates` for a key k and a list of strings
Listed(allowed_updates, k) ==
  \E i \in 1..Len(Val(allowed_updates)) : Val(allowed_updates)[i] = MkStr(<<k>>)

\* a sync that merges the client state whatever it lists
UpdatesUnfiltered(client_state) == client_state

\* sync_from_client: the updates it takes from the client state
Updates(client_state) ==
  LET allowed_updates == DictGet(client_state, AllowedKey, MkList(<<>>))
  IN IF Truthy(allowed_updates)
     THEN [k \in {x \in DOMAIN client_state : Listed(allowed_updates, x)} |->
             client_state[k]]
     ELSE client_state

\* StateManager.sync_from_client(component_id, client_state), as
\* AjaxHandler._handle_state_sync calls it with the JSON body of the request
sync_from_client(component_id, client_state) ==
  /\ states' = Updated(component_id, Updates(client_state), FALSE).states
  /\ session' = Updated(component_id, Updates(client_state), FALSE).session
  /\ last_call' = [op |-> "sync_from_client", id |-> component_id,
                   arg |-> client_state, persist |-> FALSE]
  /\ UNCHANGED <<storeVars, instances, subscriptions, written, evaluated, dom, ops,
                 pageVars, managerVars, connections, component_subscribers,
                 rooms, sent>>

Eve == MkStr(<<"Eve">>)

\* the states callers set
StatePool == {[count |-> MkInt(0)], [count |-> MkInt(1), name |-> MkStr(<<"Ada">>)]}

\* the JSON bodies clients post: with a list naming a key they carry, a list
\* naming a key they do not carry, a list naming itself, an empty list and
\* no list
ClientStates ==
  {[count |-> MkInt(5), name |-> Eve],
   [count |-> MkInt(5), name |-> Eve, _allowed_updates |-> MkList(<<>>)],
   [count |-> MkInt(5), name |-> Eve,
    _allowed_updates |-> MkList(<<MkStr(<<"count">>)>>)],
   [name |-> Eve, _allowed_updates |-> MkList(<<MkStr(<<"count">>)>>)],
   [count |-> MkInt(5),
    _allowed_updates |-> MkList(<<MkStr(<<"count">>), MkStr(<<"_allowed_updates">>)>>)]}

NextStates ==
  \E component_id \in Components :
    \/ \E st \in StatePool, persist \in BOOLEAN : set_state(component_id, st, persist)
    \/ \E persist \in BOOLEAN : update_state(component_id, [count |-> MkInt(1)], persist)
    \/ clear_state(component_id)
    \/ \E client_state \in ClientStates : sync_from_client(component_id, client_state)

SpecStates == Init /\ [][NextStates]_vars

\* C38: after set_state(id, S, persist), with either value of persist and
\* whatever calls came before, get_state(id) returns S; after
\* clear_state(id), get_state(id) returns the empty state.
C38_ReadYourWrite ==
  /\ last_call.op = "set_state" => get_state(last_call.id) = last_call.arg
  /\ last_call.op = "clear_state" => get_state(last_call.id) = EmptyMap

\* the keys the '_allowed_updates' list of a client state names
Named(client_state) ==
  IF AllowedKey \in DOMAIN client_state
  THEN {Val(Val(client_state[AllowedKey])[i])[1] :
          i \in 1..Len(Val(client_state[AllowedKey]))}
  ELSE {}

\* key k is the same in the dicts a and b: absent from both, or present in
\* both with one value
SameAt(a, b, k) ==
  /\ k \in DOMAIN a <=> k \in DOMAIN b
  /\ k \in DOMAIN a => a[k] = b[k]

\* C34: sync_from_client with a client state that carries a non-empty
\* '_allowed_updates' list sets each listed key the client state holds to
\* the client's value and leaves every other key of the component's state
\* as it was ('_allowed_updates' itself too, unless it is listed); with the
\* list absent or empty it sets every key of the client state and leaves the
\* others as they were.
C34_SyncOnlyAllowed ==
  [][\A component_id \in Components, client_state \in ClientStates :
       sync_from_client(component_id, client_state) =>
         LET before == get_state(component_id)
             after  == get_state(component_id)'
             taken  == IF Named(client_state) # {}
                       THEN Named(client_state) \cap DOMAIN client_state
                       ELSE DOMAIN client_state
         IN /\ \A k \in taken : k \in DOMAIN after /\ after[k] = client_state[k]
            /\ \A k \in (DOMAIN before \cup DOMAIN after) \ taken :
                 SameAt(before, after, k)]_vars

\* a sync whose list names 'count' alone has set the count and has kept a
\* name that differs from the client's, and no '_allowed_updates' key
C34_Witness ==
  /\ last_call.op = "sync_from_client"
  /\ Named(last_call.arg) = {"count"}
  /\ {"name", "count"} \subseteq DOMAIN last_call.arg
  /\ LET st == get_state(last_call.id)
     IN /\ "name" \in DOMAIN st /\ st["name"] # last_call.arg["name"]
        /\ st["count"] = last_call.arg["count"]
        /\ AllowedKey \notin DOMAIN st

(***************************************************************************)
(* C39: NewUIWebSocket, its connections and its two indexes.               *)
(***************************************************************************)

\* request.sid of the clients, and the room names they ask for
Sessions == {"s1", "s2"}

RoomNames == {"lobby", "admin"}

\* index[key] = set() if the key is new, then index[key].add(session_id)
IndexAdd(index, key, session_id) ==
  DictSet(index, key, DictGet(index, key, {}) \cup {session_id})

\* a handler that leaves the index as it is
IndexKept(index, key, session_id) == index

\* if key in index: index[key].discard(session_id), and del index[key] once
\* the set is empty
IndexDiscard(index, key, session_id) ==
  IF key \notin DOMAIN index THEN index
  ELSE IF index[key] \ {session_id} = {} THEN DictPop(index, key)
  ELSE DictSet(index, key, index[key] \ {session_id})

RECURSIVE DiscardAll(_, _, _)
\* _handle_disconnect: the loop over the subscriptions (or rooms) of the
\* connection
DiscardAll(index, keys, session_id) ==
  IF keys = {} THEN index
  ELSE LET key == CHOOSE k \in keys : TRUE
       IN DiscardAll(IndexDiscard(index, key, session_id), keys \ {key}, session_id)

\* _handle_connect: Socket.IO gives every connection a session id of its
\* own, so the session is not among the connections
HandleConnect(session_id) ==
  /\ session_id \notin DOMAIN connections
  /\ connections' = DictSet(connections, session_id,
                            [subscriptions |-> {}, rooms |-> {}])
  /\ UNCHANGED <<storeVars, uiVars, pageVars, managerVars, session, last_call,
                 component_subscribers, rooms, sent>>

\* _handle_disconnect
HandleDisconnect(session_id) ==
  /\ IF session_id \in DOMAIN connections
     THEN /\ component_subscribers' =
               DiscardAll(component_subscribers,
                          connections[session_id].subscriptions, session_id)
          /\ rooms' = DiscardAll(rooms, connections[session_id].rooms, session_id)
          /\ connections' = DictPop(connections, session_id)
     ELSE UNCHANGED <<connections, component_subscribers, rooms>>
  /\ UNCHANGED <<storeVars, uiVars, pageVars, managerVars, session, last_call, sent>>

\* _handle_subscribe with data = {'componentId': component_id}; "" stands
\* for a missing or empty id
HandleSubscribe(session_id, component_id) ==
  /\ IF component_id # "" /\ session_id \in DOMAIN connections
     THEN /\ connections' = [connections EXCEPT
                               ![session_id].subscriptions = @ \cup {component_id}]
          /\ component_subscribers' =
               IndexAdd(component_subscribers, component_id, session_id)
     ELSE UNCHANGED <<connections, component_subscribers>>
  /\ UNCHANGED <<storeVars, uiVars, pageVars, managerVars, session, last_call,
                 rooms, sent>>

\* _handle_unsubscribe
HandleUnsubscribe(session_id, component_id) ==
  /\ IF component_id # "" /\ session_id \in DOMAIN connections
     THEN /\ connections' = [connections EXCEPT
                               ![session_id].subscriptions = @ \ {component_id}]
          /\ component_subscribers' =
               IndexDiscard(component_subscribers, component_id, session_id)
     ELSE UNCHANGED <<connections, component_subscribers>>
  /\ UNCHANGED <<storeVars, uiVars, pageVars, managerVars, session, last_call,
                 rooms, sent>>

\* _handle_join_room with data = {'room': room_name}
HandleJoinRoom(session_id, room_name) ==
  /\ IF room_name # "" /\ session_id \in DOMAIN connections
     THEN /\ connections' = [connections EXCEPT
                               ![session_id].rooms = @ \cup {room_name}]
          /\ rooms' = IndexAdd(rooms, room_name, session_id)
     ELSE UNCHANGED <<connections, rooms>>
  /\ UNCHANGED <<storeVars, uiVars, pageVars, managerVars, session, last_call,
                 component_subscribers, sent>>

\* _handle_leave_room
HandleLeaveRoom(session_id, room_name) ==
  /\ IF room_name # "" /\ session_id \in DOMAIN connections
     THEN /\ connections' = [connections EXCEPT
                               ![session_id].rooms = @ \ {room_name}]
          /\ rooms' = IndexDiscard(rooms, room_name, session_id)
     ELSE UNCHANGED <<connections, rooms>>
  /\ UNCHANGED <<storeVars, uiVars, pageVars, managerVars, session, last_call,
                 component_subscribers, sent>>

\* update_component_state(component_id, state_data) with no room: one emit
\* per session of component_subscribers[component_id], under the lock
update_component_state(component_id) ==
  /\ sent' = [component |-> component_id,
              to |-> DictGet(component_subscribers, component_id, {})]
  /\ UNCHANGED <<storeVars, uiVars, pageVars, managerVars, session, last_call,
                 connections, component_subscribers, rooms>>

\* the handlers change the indexes under self.lock, so each event is one
\* step; events of different sessions come in any order
NextSocket ==
  \/ \E session_id \in Sessions :
       \/ HandleConnect(session_id)
       \/ HandleDisconnect(session_id)
       \/ \E component_id \in Components \cup {""} :
            \/ HandleSubscribe(session_id, component_id)
            \/ HandleUnsubscribe(session_id, component_id)
       \/ \E room_name \in RoomNames \cup {""} :
            \/ HandleJoinRoom(session_id, room_name)
            \/ HandleLeaveRoom(session_id, room_name)
  \/ \E component_id \in Components : update_component_state(component_id)

SpecSocket == Init /\ [][NextSocket]_vars

\* the sessions that are connected and hold key in the given field of
\* their connection
Holders(field, key) ==
  {s \in DOMAIN connections : key \in connections[s][field]}

\* the index has exactly the keys some connection holds, each with exactly
\* the sessions that hold it (so no entry is empty and no session that is
\* not connected appears)
IndexAgrees(index, field, keys) ==
  /\ DOMAIN index \subseteq keys
  /\ \A key \in keys :
       /\ key \in DOMAIN index <=> Holders(field, key) # {}
       /\ key \in DOMAIN index => index[key] = Holders(field, key)

====
